---- MODULE Spec2Model ----
(***************************************************************************)
(* The prompt construction pipeline of the Universal Prompt Optimizer      *)
(* (src/app.py): category extraction, positive prompt assembly, negative   *)
(* prompt merging and the platform packagers, driven by the /optimize      *)
(* handler; and the platform-aware packaging of src/prompt_engine.py,      *)
(* build_prompt.                                                           *)
(*                                                                         *)
(* Python strings are TLA+ strings; a character is a string of length 1.   *)
(* The module-level tables of app.py and prompt_engine.py are mutable      *)
(* Python objects and are therefore variables of the model.                *)
(***************************************************************************)
EXTENDS Integers, Sequences, FiniteSets, TLC

VARIABLES
  STYLE_KEYWORDS,   \* app.py module global: category -> list of phrases
  NEGATIVE_DEFAULT, \* app.py module global: list of terms (with repeats)
  AR_TO_RES,        \* app.py module global: ratio -> (width, height)
  STOPWORDS,        \* app.py module global: set of words
  request,          \* the JSON body of the request in flight: <<>> or <<data>>
  response,         \* the handler's answer to it: <<>> or <<[body, status]>>
  earlier,          \* an earlier exchange kept for comparison: <<>> or <<[data, result]>>
  NEGATIVE_BASE,    \* prompt_engine.py module global: platform -> list of terms
  STYLE_PRESETS,    \* prompt_engine.py module global: style name -> list of phrases
  pr,               \* the argument of the build_prompt call in progress: <<>> or <<dict>>
  pack,             \* what the call returned: <<>> or <<dict>>
  sent_emails,      \* table sent_emails: the rows in id order
  resends,          \* per sent_emails id: the re-send attempts handed to the mail provider
  retry_runs,       \* per thread: <<>> or <<the failed_emails still to go through>>
  upsell_follow_ups, \* table upsell_follow_ups: the rows in id order
  deliveries,       \* per upsell_follow_ups id: the emails the mail provider accepted
  upsell_runs,      \* per thread: <<>> or <<the pending_emails still to go through>>
  utcnow,           \* datetime.utcnow(), in hours
  api_keys,         \* table api_keys: key -> row
  usage,            \* table usage, the rows of today: key -> count
  calls             \* per worker thread: <<>> or <<the request it is handling>>

vars == <<STYLE_KEYWORDS, NEGATIVE_DEFAULT, AR_TO_RES, STOPWORDS, request, response, earlier,
          NEGATIVE_BASE, STYLE_PRESETS, pr, pack, sent_emails, resends, retry_runs,
          upsell_follow_ups, deliveries, upsell_runs, utcnow, api_keys, usage, calls>>

tables == <<STYLE_KEYWORDS, AR_TO_RES, STOPWORDS>>

\* the state of prompt_engine.py and of its caller
engine == <<NEGATIVE_BASE, STYLE_PRESETS, pr, pack>>

\* the state of the email retries, of the upsell follow-ups and of the API keys
mail == <<sent_emails, resends, retry_runs>>

upsell == <<upsell_follow_ups, deliveries, upsell_runs, utcnow>>

keys == <<api_keys, usage, calls>>

\* the database and the threads working on it
store == <<mail, upsell, keys>>

(***************************************************************************)
(* Bounds of the model.                                                    *)
(***************************************************************************)
\* length of the long token used to drive outputs past the clamp
LongLen == 860
\* length of the long user negative term
LongNegLen == 400

(***************************************************************************)
(* Python string primitives, as the pipeline uses them.                    *)
(***************************************************************************)
Char(s, i) == SubSeq(s, i, i)

Min(S) == CHOOSE x \in S : \A y \in S : x <= y

Max(S) == CHOOSE x \in S : \A y \in S : y <= x

RECURSIVE SortedSeq(_)
SortedSeq(S) == IF S = {} THEN <<>> ELSE LET m == Min(S) IN <<m>> \o SortedSeq(S \ {m})

RECURSIVE Rep(_, _)
Rep(c, n) == IF n <= 0 THEN "" ELSE IF n = 1 THEN c ELSE Rep(c, n \div 2) \o Rep(c, n - n \div 2)

\* the one-character string U+2026 (HORIZONTAL ELLIPSIS) that clamp_length appends
ELLIPSIS == "~"

UPPER == "ABCDEFGHIJKLMNOPQRSTUVWXYZ"

LOWER == "abcdefghijklmnopqrstuvwxyz"

DIGITS == "0123456789"

CharsOf(s) == {Char(s, i) : i \in 1..Len(s)}

LowerOf == [c \in CharsOf(UPPER) |-> Char(LOWER, CHOOSE k \in 1..Len(UPPER) : Char(UPPER, k) = c)]

\* str.lower()
RECURSIVE lower(_)
lower(s) ==
  IF Len(s) = 0 THEN ""
  ELSE IF Len(s) = 1 THEN (IF s \in DOMAIN LowerOf THEN LowerOf[s] ELSE s)
  ELSE LET h == Len(s) \div 2 IN lower(SubSeq(s, 1, h)) \o lower(SubSeq(s, h + 1, Len(s)))

WHITESPACE == {" ", "\t", "\n", "\r"}

\* str.strip()
strip(s) ==
  LET n == Len(s)
      ink == [i \in 1..n |-> Char(s, i) \notin WHITESPACE]
      firsts == {i \in 1..n : ink[i] /\ (i = 1 \/ ~ink[i - 1])}
      lasts == {i \in 1..n : ink[i] /\ (i = n \/ ~ink[i + 1])}
  IN IF firsts = {} THEN "" ELSE SubSeq(s, Min(firsts), Max(lasts))

\* where str.split and str.replace find `sub` in s: the leftmost occurrence, then
\* the leftmost one after its end, and so on
RECURSIVE scan_from(_, _, _)
scan_from(hits, width, from) ==
  LET later == {i \in hits : i >= from}
  IN IF later = {} THEN <<>> ELSE <<Min(later)>> \o scan_from(hits, width, Min(later) + width)

occurrences(s, sub) ==
  scan_from({i \in 1..(Len(s) - Len(sub) + 1) : SubSeq(s, i, i + Len(sub) - 1) = sub}, Len(sub), 1)

\* str.split(sep)
split(s, sep) ==
  LET n == Len(s)
      w == Len(sep)
      ps == occurrences(s, sep)
      k == Len(ps)
  IN [j \in 1..(k + 1) |->
        SubSeq(s, IF j = 1 THEN 1 ELSE ps[j - 1] + w, IF j = k + 1 THEN n ELSE ps[j] - 1)]

\* sep.join(parts)
RECURSIVE join(_, _)
join(sep, parts) ==
  IF Len(parts) = 0 THEN ""
  ELSE IF Len(parts) = 1 THEN parts[1]
  ELSE LET h == Len(parts) \div 2
       IN join(sep, SubSeq(parts, 1, h)) \o sep \o join(sep, SubSeq(parts, h + 1, Len(parts)))

\* `sub in s` for strings
contains(s, sub) ==
  LET n == Len(s)
      m == Len(sub)
  IN m = 0 \/ \E i \in 1..(n - m + 1) : SubSeq(s, i, i + m - 1) = sub

\* str.replace(old, new)
replace(s, old, new) == join(new, split(s, old))

\* seq[:n]
Take(seq, n) == SubSeq(seq, 1, IF Len(seq) < n THEN Len(seq) ELSE n)

Range(seq) == {seq[i] : i \in 1..Len(seq)}

(***************************************************************************)
(* The static tables as app.py's module level defines them.                *)
(***************************************************************************)
STYLE_KEYWORDS_0 ==
  [quality |-> <<
      "masterpiece", "best quality", "ultra high detail", "8k", "4k", "highres", "ultra detailed",
      "extremely detailed", "intricate", "sharp focus", "professional" >>,
   art_styles |-> <<
      "photorealistic", "hyperrealistic", "cinematic", "digital art", "oil painting", "watercolor",
      "anime", "manga", "concept art", "impressionist", "baroque", "renaissance", "art nouveau",
      "cyberpunk", "steampunk", "minimalist" >>,
   photography |-> <<
      "bokeh", "depth of field", "macro", "wide angle", "telephoto", "portrait", "landscape",
      "street photography", "documentary", "fashion photography" >>,
   lighting |-> <<
      "soft lighting", "hard lighting", "natural lighting", "studio lighting", "golden hour",
      "blue hour", "backlighting", "rim lighting", "volumetric lighting", "chiaroscuro" >>,
   composition |-> <<
      "rule of thirds", "centered", "symmetrical", "leading lines", "framing", "negative space",
      "close-up", "medium shot", "wide shot", "bird's eye view", "worm's eye view" >>,
   mood |-> <<
      "moody", "dramatic", "serene", "melancholic", "uplifting", "mysterious", "romantic",
      "energetic", "peaceful", "tense", "nostalgic", "futuristic" >>,
   color_grades |-> <<
      "vibrant", "desaturated", "monochrome", "sepia", "teal and orange", "warm tones",
      "cool tones", "high contrast", "low contrast", "film grain" >> ]

NEGATIVE_DEFAULT_0 ==
  <<
    "lowres", "bad anatomy", "bad hands", "text", "error", "missing fingers", "extra digit",
    "fewer digits", "cropped", "worst quality", "low quality", "normal quality", "jpeg artifacts",
    "signature", "watermark", "username", "blurry", "bad feet", "cropped", "poorly drawn hands",
    "poorly drawn face", "mutation", "deformed", "worst quality", "low quality", "normal quality",
    "jpeg artifacts", "signature", "watermark", "extra fingers", "fewer digits", "extra limbs",
    "extra arms", "extra legs", "malformed limbs", "fused fingers", "too many fingers",
    "long neck", "cross-eyed", "mutated hands", "polar lowres", "bad body", "bad proportions",
    "gross proportions", "text", "error", "missing fingers", "missing arms", "missing legs",
    "extra digit", "extra arms", "extra leg", "extra foot" >>

STOPWORDS_0 ==
  {"a", "an", "the", "of", "and", "to", "in", "on", "at", "by", "for", "with", "from", "into", "over", "under", "between", "is", "are", "was", "were", "be", "been", "being", "do", "does", "did", "have", "has", "had", "can", "will", "would", "should", "this", "that", "these", "those", "as", "if", "then", "than", "so", "such", "very", "really", "just", "it", "its", "it's"}

AR_TO_RES_0 ==
  [r \in {"1:1", "16:9", "9:16", "2:3", "3:2"} |->
     CASE r = "1:1" -> <<1024, 1024>>
       [] r = "16:9" -> <<1344, 768>>
       [] r = "9:16" -> <<768, 1344>>
       [] r = "2:3" -> <<832, 1216>>
       [] r = "3:2" -> <<1216, 832>>]

\* the default of clamp_length's max_chars parameter
MAX_CHARS == 850

\* the regex character class [A-Za-z0-9\-+/#'] of tokenize
TOKEN_CHARS == CharsOf(UPPER) \cup CharsOf(LOWER) \cup CharsOf(DIGITS) \cup {"-", "+", "/", "#", "'"}

(***************************************************************************)
(* Core processing functions.                                              *)
(***************************************************************************)
\* re.findall(r"[A-Za-z0-9\-+/#']+", text.lower()): the maximal runs, left to right
tokenize(text) ==
  LET s == lower(text)
      n == Len(s)
      tok == [i \in 1..n |-> Char(s, i) \in TOKEN_CHARS]
      starts == SortedSeq({i \in 1..n : tok[i] /\ (i = 1 \/ ~tok[i - 1])})
      ends == {i \in 1..n : tok[i] /\ (i = n \/ ~tok[i + 1])}
  IN [k \in 1..Len(starts) |-> SubSeq(s, starts[k], Min({j \in ends : j >= starts[k]}))]

RECURSIVE dedup_loop(_, _, _, _)
dedup_loop(seq, i, seen, out) ==
  IF i > Len(seq) THEN out
  ELSE IF seq[i] \notin seen /\ seq[i] # ""
       THEN dedup_loop(seq, i + 1, seen \cup {seq[i]}, Append(out, seq[i]))
       ELSE dedup_loop(seq, i + 1, seen, out)

dedup_preserve(seq) == dedup_loop(seq, 1, {}, <<>>)

\* faulty variant: the slice keeps one character too many
clamp_length_keeps_one_more(s) ==
  IF Len(s) > MAX_CHARS THEN SubSeq(s, 1, MAX_CHARS + 1) \o ELLIPSIS ELSE s

\* faulty variant: the cut backs up to the last term boundary
clamp_length_at_term_boundary(s) ==
  IF Len(s) > MAX_CHARS
  THEN LET seps == {i \in 1..(MAX_CHARS - 1) : SubSeq(s, i, i + 1) = ", "}
       IN (IF seps = {} THEN SubSeq(s, 1, MAX_CHARS) ELSE SubSeq(s, 1, Max(seps) - 1)) \o ELLIPSIS
  ELSE s

clamp_length(s) == IF Len(s) > MAX_CHARS THEN SubSeq(s, 1, MAX_CHARS) \o ELLIPSIS ELSE s

\* faulty variant: a style phrase matches only as whole words of the text
extract_categories_whole_words(user_text) ==
  LET words == tokenize(user_text)
      text == " " \o join(" ", words) \o " "
      found == [k \in DOMAIN STYLE_KEYWORDS |->
                  SelectSeq(STYLE_KEYWORDS[k], LAMBDA term : contains(text, " " \o term \o " "))]
      used_style_words == UNION {Range(tokenize(term)) : term \in UNION {Range(found[k]) : k \in DOMAIN found}}
      subject_terms == SelectSeq(words, LAMBDA w : w \notin STOPWORDS /\ w \notin used_style_words /\ Len(w) > 2)
  IN [found |-> found, subject_terms |-> subject_terms]

extract_categories(user_text) ==
  LET words == tokenize(user_text)
      text == lower(user_text)
      found == [k \in DOMAIN STYLE_KEYWORDS |->
                  SelectSeq(STYLE_KEYWORDS[k], LAMBDA term : contains(text, term))]
      used_style_words == UNION {Range(tokenize(term)) : term \in UNION {Range(found[k]) : k \in DOMAIN found}}
      subject_terms == SelectSeq(words, LAMBDA w : w \notin STOPWORDS /\ w \notin used_style_words /\ Len(w) > 2)
  IN [found |-> found, subject_terms |-> subject_terms]

\* the eight sections of build_positive, each as the code fills it
quality_terms(found_styles) ==
  IF found_styles.quality # <<>> THEN Take(found_styles.quality, 2) ELSE <<>>

core_subject(subject_terms) == Take(subject_terms, 8)

style_terms(found_styles) == Take(found_styles.art_styles, 2) \o Take(found_styles.photography, 2)

\* faulty variant: matched terms are used only when there is no override
lighting_terms_override_only(found_styles, extras) ==
  IF extras.lighting # "" THEN Take(tokenize(extras.lighting), 2) ELSE Take(found_styles.lighting, 2)

lighting_terms(found_styles, extras) ==
  Take((IF extras.lighting # "" THEN tokenize(extras.lighting) ELSE <<>>) \o Take(found_styles.lighting, 2), 2)

composition_terms(found_styles) == Take(found_styles.composition, 2)

mood_terms(found_styles) == Take(found_styles.mood, 2)

color_terms(found_styles, extras) ==
  Take((IF extras.color_grade # "" THEN tokenize(extras.color_grade) ELSE <<>>) \o Take(found_styles.color_grades, 2), 2)

extra_tag_terms(extras) ==
  IF extras.extra_tags # "" THEN Take(tokenize(extras.extra_tags), 3) ELSE <<>>

\* faulty variant: the subject goes in before the quality terms
build_positive_parts_subject_first(subject_terms, found_styles, extras) ==
  core_subject(subject_terms) \o quality_terms(found_styles) \o style_terms(found_styles)
    \o lighting_terms(found_styles, extras) \o composition_terms(found_styles)
    \o mood_terms(found_styles) \o color_terms(found_styles, extras) \o extra_tag_terms(extras)

\* `parts` of build_positive before deduplication
build_positive_parts(subject_terms, found_styles, extras) ==
  quality_terms(found_styles) \o core_subject(subject_terms) \o style_terms(found_styles)
    \o lighting_terms(found_styles, extras) \o composition_terms(found_styles)
    \o mood_terms(found_styles) \o color_terms(found_styles, extras) \o extra_tag_terms(extras)

build_positive(subject_terms, found_styles, extras) ==
  clamp_length(join(", ", dedup_preserve(build_positive_parts(subject_terms, found_styles, extras))))

\* [term.strip() for term in user_negative.split(",") if term.strip()]
user_terms(user_negative) ==
  LET pieces == split(user_negative, ",")
      stripped == [j \in 1..Len(pieces) |-> strip(pieces[j])]
  IN SelectSeq(stripped, LAMBDA t : t # "")

\* faulty variant: the user's terms go in before the defaults
build_negative_parts_user_first(user_negative) ==
  (IF user_negative # "" THEN user_terms(user_negative) ELSE <<>>) \o NEGATIVE_DEFAULT

\* `parts` of build_negative before deduplication
build_negative_parts(user_negative) ==
  NEGATIVE_DEFAULT \o (IF user_negative # "" THEN user_terms(user_negative) ELSE <<>>)

build_negative(user_negative) ==
  clamp_length(join(", ", dedup_preserve(build_negative_parts(user_negative))))

\* faulty variant: `parts` is the shared list itself, and extending it extends the shared list
NEGATIVE_DEFAULT_aliased(user_negative) == build_negative_parts(user_negative)

\* NEGATIVE_DEFAULT after build_negative has run: `parts` is a copy,
\* list(NEGATIVE_DEFAULT), so extending it leaves the shared list alone
NEGATIVE_DEFAULT_after_build_negative(user_negative) == NEGATIVE_DEFAULT

\* faulty variant: an unknown ratio falls back to the 16:9 size
resolution_falls_back_wide(aspect_ratio) ==
  IF aspect_ratio \in DOMAIN AR_TO_RES THEN AR_TO_RES[aspect_ratio] ELSE <<1344, 768>>

\* AR_TO_RES.get(aspect_ratio, (1024, 1024))
resolution(aspect_ratio) ==
  IF aspect_ratio \in DOMAIN AR_TO_RES THEN AR_TO_RES[aspect_ratio] ELSE <<1024, 1024>>

\* faulty variant: width and height change places
sdxl_prompt_swapped(positive, negative, aspect_ratio) ==
  LET wh == resolution(aspect_ratio)
  IN [positive |-> positive,
      negative |-> negative,
      settings |-> [width |-> wh[2], height |-> wh[1], steps |-> 30, cfg_scale |-> "6.5",
                    sampler |-> "DPM++ 2M Karras", scheduler |-> "karras", model |-> "SDXL"]]

\* a float literal of the source is kept as its decimal text
sdxl_prompt(positive, negative, aspect_ratio) ==
  LET wh == resolution(aspect_ratio)
  IN [positive |-> positive,
      negative |-> negative,
      settings |-> [width |-> wh[1], height |-> wh[2], steps |-> 30, cfg_scale |-> "6.5",
                    sampler |-> "DPM++ 2M Karras", scheduler |-> "karras", model |-> "SDXL"]]

comfyui_recipe(positive, negative, aspect_ratio) ==
  LET wh == resolution(aspect_ratio)
  IN [positive |-> positive,
      negative |-> negative,
      settings |-> [width |-> wh[1], height |-> wh[2], steps |-> 30, cfg_scale |-> "6.5",
                    sampler |-> "dpmpp_2m"],
      execution_tips |-> <<"Use SDXL base model for best results",
                           "Enable 'Tiled VAE' if getting VRAM errors",
                           "Consider refiner model for final 20% of steps">>]

\* faulty variant: "8k" is left in the prompt
midjourney_prompt_keeps_8k(positive, aspect_ratio) ==
  LET ar == IF aspect_ratio \in {"1:1", "16:9", "9:16", "2:3", "3:2"} THEN aspect_ratio ELSE "1:1"
  IN positive \o " --v 6 --ar " \o ar \o " --stylize 200 --chaos 5"

midjourney_prompt(positive, aspect_ratio) ==
  LET ar == IF aspect_ratio \in {"1:1", "16:9", "9:16", "2:3", "3:2"} THEN aspect_ratio ELSE "1:1"
      ar_flag == "--ar " \o ar
      clean_positive == replace(positive, "8k", "ultra high detail")
  IN clean_positive \o " --v 6 " \o ar_flag \o " --stylize 200 --chaos 5"

\* faulty variant: the prompt goes out without the motion suffix
pika_prompt_without_suffix(positive) ==
  [prompt |-> positive,
   motion |-> "subtle camera push-in, natural parallax, no warping",
   duration_sec |-> 6,
   guidance |-> "7.0"]

pika_prompt(positive) ==
  [prompt |-> positive \o ", animated micro-details, smooth motion, temporal consistency",
   motion |-> "subtle camera push-in, natural parallax, no warping",
   duration_sec |-> 6,
   guidance |-> "7.0"]

runway_prompt(positive) ==
  [text_prompt |-> positive,
   camera_motion |-> "push_in",
   motion_strength |-> "medium",
   duration_sec |-> 5,
   notes |-> "Keep subject centrally framed to reduce morphing."]

\* (data.get(key) or default)
get_or(data, key, default) ==
  IF key \in DOMAIN data /\ data[key] # "" THEN data[key] ELSE default

\* faulty variant: the idea is taken as sent, not stripped
user_text_unstripped(data) == get_or(data, "idea", "")

\* the locals _optimize_core reads out of the request body
user_text_of(data) == strip(get_or(data, "idea", ""))

user_negative_of(data) == strip(get_or(data, "negative", ""))

aspect_ratio_of(data) == strip(get_or(data, "aspect_ratio", "1:1"))

extras_of(data) ==
  [lighting |-> strip(get_or(data, "lighting", "")),
   color_grade |-> strip(get_or(data, "color_grade", "")),
   extra_tags |-> strip(get_or(data, "extra_tags", ""))]

\* _optimize_core returns (body, status)
_optimize_core(data) ==
  LET user_text == user_text_of(data)
      user_negative == user_negative_of(data)
      aspect_ratio == aspect_ratio_of(data)
      extras == extras_of(data)
  IN IF user_text = ""
     THEN [body |-> [error |-> "Please describe your idea."], status |-> 400]
     ELSE LET ex == extract_categories(user_text)
              positive == build_positive(ex.subject_terms, ex.found, extras)
              negative == build_negative(user_negative)
          IN [body |->
                [unified |-> [positive |-> positive, negative |-> negative],
                 sdxl |-> sdxl_prompt(positive, negative, aspect_ratio),
                 comfyui |-> comfyui_recipe(positive, negative, aspect_ratio),
                 midjourney |-> midjourney_prompt(positive, aspect_ratio),
                 pika |-> pika_prompt(positive),
                 runway |-> runway_prompt(positive),
                 hints |-> [faces |-> "For better faces: Add 'portrait, detailed face, sharp focus' and avoid 'bad anatomy' in negative",
                            motion |-> "For video: Use motion cues like 'gentle camera movement' but avoid 'warping, morphing'",
                            busy |-> "If output is too busy: Reduce adjectives and focus on 1-2 key elements"]],
              status |-> 200]

\* NEGATIVE_DEFAULT after _optimize_core(data): build_negative runs on the success path only
NEGATIVE_DEFAULT_after_optimize_core(data) ==
  IF user_text_of(data) = "" THEN NEGATIVE_DEFAULT
  ELSE NEGATIVE_DEFAULT_after_build_negative(user_negative_of(data))

(***************************************************************************)
(* src/prompt_engine.py: the static tables.                                *)
(***************************************************************************)
STYLE_PRESETS_0 ==
  [cinematic |-> <<"cinematic lighting", "rich contrast", "depth of field", "35mm film look",
                   "color graded", "high dynamic range">>,
   photorealistic |-> <<"photorealistic", "physically based rendering", "global illumination",
                        "volumetric light", "realistic textures", "natural skin tones">>,
   anime |-> <<"anime style", "clean line art", "cel shading", "studio-quality coloring",
               "expressive eyes", "dynamic composition">>,
   illustration |-> <<"illustration", "inked linework", "vibrant colors", "hand-drawn feel",
                      "storybook composition">>]
  @@ ("3d render" :> <<"ultra-detailed 3D render", "ray tracing", "subsurface scattering",
                       "high poly", "octane-style lighting">>)
  @@ ("pixel art" :> <<"pixel art", "limited palette", "crisp 1px outlines", "retro aesthetic",
                       "NES/SNES-era styling">>)
  @@ [watercolor |-> <<"watercolor painting", "soft washes", "paper texture", "pigment bloom",
                       "loose brushwork">>]
  @@ ("line art" :> <<"monoline", "clean contour lines", "minimal shading", "vector style">>)

NEGATIVE_BASE_0 ==
  [sdxl |-> <<"low quality", "blurry", "jpeg artifacts", "overexposed", "underexposed",
              "extra limbs", "bad anatomy", "mutated hands", "deformed">>,
   comfyui |-> <<"lowres", "noise", "bad composition", "posterization", "oversharpened",
                 "extra limbs", "bad anatomy", "deformed">>,
   midjourney |-> <<"blurry", "low detail", "mutated", "disfigured", "extra limbs", "bad anatomy",
                    "watermark", "text">>,
   pika |-> <<"low quality", "motion smear", "jitter", "banding", "flicker", "bad anatomy">>,
   runway |-> <<"low quality", "blurry", "banding", "posterization", "artifacting", "bad anatomy">>]

SOFT_FILTER == <<"nudity", "explicit", "nsfw", "porn", "sexual", "erotic", "fetish">>

SUGGESTED_SAMPLERS == <<"DPM++ 2M Karras", "Euler a", "DDIM">>

(***************************************************************************)
(* src/prompt_engine.py: numbers.  int() and float() are modelled on the   *)
(* decimal texts [+-]digits and [+-]digits[.digits]; a float is kept as    *)
(* the exact fraction n/d it denotes, and round() rounds half to even.     *)
(***************************************************************************)
_clamp(v, lo, hi) == Max({lo, Min({hi, v})})

IsDigits(s) == Len(s) > 0 /\ \A i \in 1..Len(s) : Char(s, i) \in CharsOf(DIGITS)

DigitValue(c) == (CHOOSE k \in 1..Len(DIGITS) : Char(DIGITS, k) = c) - 1

RECURSIVE DigitsValue(_)
DigitsValue(s) ==
  IF Len(s) = 0 THEN 0
  ELSE DigitsValue(SubSeq(s, 1, Len(s) - 1)) * 10 + DigitValue(Char(s, Len(s)))

RECURSIVE Pow10(_)
Pow10(k) == IF k = 0 THEN 1 ELSE 10 * Pow10(k - 1)

\* the sign and the unsigned rest of a numeric text
SignOf(s) == IF Len(s) > 0 /\ Char(s, 1) = "-" THEN -1 ELSE 1

Unsigned(s) == IF Len(s) > 0 /\ Char(s, 1) \in {"-", "+"} THEN SubSeq(s, 2, Len(s)) ELSE s

\* int(text): <<value>>, or <<>> where int raises ValueError
int_of(s) == IF IsDigits(Unsigned(s)) THEN <<SignOf(s) * DigitsValue(Unsigned(s))>> ELSE <<>>

parse_int(text) == int_of(strip(text))

\* float(text): <<[n, d]>> for the fraction n/d, or <<>> where float raises
\* ValueError; `parts` is the unsigned text split at the decimal point
float_of(sign, parts) ==
  IF Len(parts) = 1 /\ IsDigits(parts[1])
  THEN <<[n |-> sign * DigitsValue(parts[1]), d |-> 1]>>
  ELSE IF /\ Len(parts) = 2
          /\ parts[1] = "" \/ IsDigits(parts[1])
          /\ parts[2] = "" \/ IsDigits(parts[2])
          /\ parts[1] \o parts[2] # ""
       THEN <<[n |-> sign * DigitsValue(parts[1] \o parts[2]), d |-> Pow10(Len(parts[2]))]>>
       ELSE <<>>

float_of_stripped(s) == float_of(SignOf(s), split(Unsigned(s), "."))

parse_float(text) == float_of_stripped(strip(text))

\* round(n / d) for d > 0: to the nearest integer, a tie to the even one
round(n, d) ==
  LET lo == n \div d
      twice == 2 * (n - lo * d)
  IN IF twice < d THEN lo
     ELSE IF twice > d THEN lo + 1
     ELSE IF lo % 2 = 0 THEN lo ELSE lo + 1

\* round64 inside _parse_aspect
round64(x) == round(x, 64) * 64

\* the fallback _parse_aspect returns for what it cannot read
ASPECT_FALLBACK == <<1344, 768, "16:9">>

\* _parse_aspect, lines 90-97: the labels, for a text with no ":"
aspect_label(a) ==
  IF a = "square" THEN <<1024, 1024, "1:1">>
  ELSE IF a = "portrait" THEN <<896, 1152, "7:9">>
  ELSE IF a = "landscape" THEN <<1344, 768, "21:12">>
  ELSE ASPECT_FALLBACK

\* _parse_aspect, lines 82-89: "WxH"; what int() cannot read, or a side that
\* is not positive, goes on to the labels
aspect_pixels(a, w, h) ==
  IF w # <<>> /\ h # <<>> /\ w[1] > 0 /\ h[1] > 0
  THEN <<w[1], h[1], ToString(w[1]) \o ":" \o ToString(h[1])>>
  ELSE aspect_label(a)

aspect_sides(a, sides) ==
  IF Len(sides) = 2 /\ \A j \in 1..Len(sides) : parse_int(sides[j]) # <<>>
  THEN aspect_pixels(a, parse_int(sides[1]), parse_int(sides[2]))
  ELSE aspect_label(a)

\* _parse_aspect, lines 104-117: the ratio rn/rd with the smaller side at
\* 1024, both sides rounded to multiples of 64
aspect_scaled(rn, rd, num_int, den_int) ==
  <<round64(IF rn >= rd THEN round(1024 * rn, rd) ELSE 1024),
    round64(IF rn >= rd THEN 1024 ELSE round(1024 * rd, rn)),
    ToString(num_int) \o ":" \o ToString(den_int)>>

\* _parse_aspect, lines 99-119: "N:D"
aspect_ratio(num, den) ==
  IF num = <<>> \/ den = <<>> THEN ASPECT_FALLBACK
  ELSE IF num[1].n <= 0 \/ den[1].n <= 0 THEN ASPECT_FALLBACK
  ELSE aspect_scaled(num[1].n * den[1].d, num[1].d * den[1].n,
                     num[1].n \div num[1].d, den[1].n \div den[1].d)

aspect_terms(terms) ==
  IF Len(terms) # 2 THEN ASPECT_FALLBACK
  ELSE aspect_ratio(parse_float(terms[1]), parse_float(terms[2]))

\* _parse_aspect on the normalised text a
aspect_of(a) ==
  IF contains(a, "x") /\ ~contains(a, ":") THEN aspect_sides(a, split(a, "x"))
  ELSE IF ~contains(a, ":") THEN aspect_label(a)
  ELSE aspect_terms(split(a, ":"))

\* _parse_aspect returns (width, height, canonical string)
_parse_aspect(aspect) ==
  aspect_of(replace(lower(strip(IF aspect = "" THEN "16:9" ELSE aspect)), " ", ""))


(***************************************************************************)
(* src/prompt_engine.py: texts.                                            *)
(***************************************************************************)
UpperOf == [c \in CharsOf(LOWER) |-> Char(UPPER, CHOOSE k \in 1..Len(LOWER) : Char(LOWER, k) = c)]

LETTERS == CharsOf(UPPER) \cup CharsOf(LOWER)

\* str.upper()
RECURSIVE upper(_)
upper(s) ==
  IF Len(s) = 0 THEN ""
  ELSE IF Len(s) = 1 THEN (IF s \in DOMAIN UpperOf THEN UpperOf[s] ELSE s)
  ELSE LET h == Len(s) \div 2 IN upper(SubSeq(s, 1, h)) \o upper(SubSeq(s, h + 1, Len(s)))

\* str.title(): a letter that follows no letter goes to upper case, every other to lower case
title(s) ==
  join("", [i \in 1..Len(s) |->
              IF i = 1 \/ Char(s, i - 1) \notin LETTERS THEN upper(Char(s, i)) ELSE lower(Char(s, i))])

\* str.split() with no argument: the maximal runs of non-whitespace, left to right
split_whitespace(s) ==
  LET n == Len(s)
      ink == [i \in 1..n |-> Char(s, i) \notin WHITESPACE]
      starts == SortedSeq({i \in 1..n : ink[i] /\ (i = 1 \/ ~ink[i - 1])})
      ends == {i \in 1..n : ink[i] /\ (i = n \/ ~ink[i + 1])}
  IN [k \in 1..Len(starts) |-> SubSeq(s, starts[k], Min({j \in ends : j >= starts[k]}))]

\* [t.strip() for t in text.split(",") if t.strip()]
stripped_pieces(text) ==
  LET pieces == split(text, ",")
      stripped == [j \in 1..Len(pieces) |-> strip(pieces[j])]
  IN SelectSeq(stripped, LAMBDA t : t # "")

RECURSIVE expand_tokens(_)
expand_tokens(tokens) ==
  IF tokens = <<>> THEN <<>>
  ELSE (IF Head(tokens) \in DOMAIN STYLE_PRESETS THEN STYLE_PRESETS[Head(tokens)] ELSE <<Head(tokens)>>)
         \o expand_tokens(Tail(tokens))

_expand_style(style) ==
  LET s == lower(strip(style))
  IN IF s = "" THEN <<>> ELSE expand_tokens(stripped_pieces(s))

_tag_list(extra_tags) == IF extra_tags = "" THEN <<>> ELSE stripped_pieces(extra_tags)

_soft_remove(text, term) ==
  join(" ", split_whitespace(replace(replace(replace(text, term, ""), title(term), ""), upper(term), "")))

\* the loop of _apply_safe_mode from the k-th term on; `lowered` is taken once, before the loop
RECURSIVE safe_mode_loop(_, _, _)
safe_mode_loop(text, lowered, k) ==
  IF k > Len(SOFT_FILTER) THEN text
  ELSE safe_mode_loop(IF contains(lowered, SOFT_FILTER[k]) THEN _soft_remove(text, SOFT_FILTER[k]) ELSE text,
                      lowered, k + 1)

_apply_safe_mode(text, enabled) == IF ~enabled THEN text ELSE safe_mode_loop(text, lower(text), 1)

_complexity_boosters(level) ==
  LET tiers == <<
        <<"clean composition">>,
        <<"balanced composition", "clear subject separation">>,
        <<"dynamic composition", "subtle rim lighting", "material detail">>,
        <<"advanced composition", "cinematic volumetrics", "micro-surface detail">>,
        <<"masterful composition", "complex lighting", "intricate texture fidelity">> >>
  IN tiers[_clamp(level, 1, 5)]

\* steps = round(12 + score/100 * (42 - 12)), cfg = round(3 + score/100 * (9 - 3))
_quality_params(score) ==
  LET clamped == _clamp(score, 0, 100)
  IN [steps |-> round(12 * 100 + clamped * (42 - 12), 100),
      cfg |-> round(3 * 100 + clamped * (9 - 3), 100)]

_build_positive(idea, style_tokens, tags, complexity, safe_mode) ==
  LET base == _apply_safe_mode(strip(idea), safe_mode)
      boosters == _complexity_boosters(complexity)
      pieces == <<base>>
                  \o (IF boosters # <<>> THEN <<join(", ", boosters)>> ELSE <<>>)
                  \o (IF style_tokens # <<>> THEN <<join(", ", style_tokens)>> ELSE <<>>)
                  \o (IF tags # <<>> THEN <<join(", ", tags)>> ELSE <<>>)
      positive == join(", ", SelectSeq(pieces, LAMBDA q : q # ""))
  IN join(" ", split_whitespace(replace(positive, " ,", ",")))

\* `base` of _merge_negative: the platform's list, then the user's text as one term
merge_negative_base(platform, user_negative) ==
  LET base == IF platform \in DOMAIN NEGATIVE_BASE THEN NEGATIVE_BASE[platform] ELSE <<>>
      user == strip(user_negative)
  IN IF user # "" THEN base \o <<user>> ELSE base

_merge_negative(platform, user_negative, safe_mode) ==
  _apply_safe_mode(join(", ", merge_negative_base(platform, user_negative)), safe_mode)

\* faulty variant: the user's text is appended to the platform's list in place
NEGATIVE_BASE_appended_in_place(platform, user_negative) ==
  IF platform \in DOMAIN NEGATIVE_BASE
  THEN [NEGATIVE_BASE EXCEPT ![platform] = merge_negative_base(platform, user_negative)]
  ELSE NEGATIVE_BASE

\* NEGATIVE_BASE after _merge_negative has run: `base + [user]` builds a new
\* list, so the platform's list is left alone
NEGATIVE_BASE_after_merge_negative(platform, user_negative) == NEGATIVE_BASE

(***************************************************************************)
(* src/prompt_engine.py: packaging.                                        *)
(***************************************************************************)
\* (quality / 100.0) * 750 is computed in IEEE-754 doubles: for these odd
\* quality values of -101..201 the sum 50 + (quality / 100.0) * 750 is not
\* the tie x.5 of exact arithmetic but the double just above it, or just below
STYLIZE_ABOVE_TIE == {-57, -29, 55, 109, 111}

STYLIZE_BELOW_TIE == {-67, -55, -17, -7, 57, 113, 115, 201}

\* int(round(50 + (quality / 100.0) * 750)), for quality in -101..201
stylize_of(quality) ==
  LET hundredths == 50 * 100 + quality * 750
  IN IF quality \in STYLIZE_ABOVE_TIE THEN hundredths \div 100 + 1
     ELSE IF quality \in STYLIZE_BELOW_TIE THEN hundredths \div 100
     ELSE round(hundredths, 100)

RECURSIVE gcd(_, _)
gcd(a, b) == IF b = 0 THEN a ELSE gcd(b, a % b)

_mj_aspect_flag(w, h) == ToString(w \div gcd(w, h)) \o ":" \o ToString(h \div gcd(w, h))

_platform_pack(platform, positive, negative, width, height, quality, complexity) ==
  LET qp == _quality_params(quality)
      steps == qp.steps
      cfg == qp.cfg
  IN IF platform = "midjourney"
     THEN LET stylize == stylize_of(quality)
              chaos == (complexity - 1) * 10
              ar == _mj_aspect_flag(width, height)
          IN [platform |-> "midjourney",
              prompt |-> positive \o " --ar " \o ar \o " --stylize " \o ToString(stylize)
                           \o " --chaos " \o ToString(chaos),
              negative_hint |-> negative,
              params |-> [stylize |-> stylize, chaos |-> chaos, aspect |-> ar]]
     ELSE IF platform = "comfyui"
     THEN [platform |-> "comfyui",
           inputs |-> [positive |-> positive, negative |-> negative, width |-> width,
                       height |-> height, cfg |-> cfg, steps |-> steps,
                       sampler_name |-> SUGGESTED_SAMPLERS[1]]]
     ELSE IF platform = "pika"
     THEN [platform |-> "pika",
           text_prompt |-> positive,
           negative_prompt |-> negative,
           params |-> [width |-> width, height |-> height, guidance |-> cfg, steps |-> steps,
                       duration_seconds_hint |-> 4 + (complexity - 1)]]
     ELSE IF platform = "runway"
     THEN [platform |-> "runway",
           text_prompt |-> positive,
           negative_prompt |-> negative,
           params |-> [width |-> width, height |-> height, guidance |-> cfg, steps |-> steps]]
     ELSE [platform |-> "sdxl",
           positive |-> positive,
           negative |-> negative,
           params |-> [width |-> width, height |-> height, cfg |-> cfg, steps |-> steps,
                       sampler |-> SUGGESTED_SAMPLERS[1]]]

PLATFORMS == {"sdxl", "comfyui", "midjourney", "pika", "runway"}

\* faulty variant: the platform name is taken as sent
platform_as_sent(p) == get_or(p, "platform", "sdxl")

\* the locals build_prompt reads out of its argument
platform_of(p) ==
  LET platform == lower(get_or(p, "platform", "sdxl"))
  IN IF platform \notin PLATFORMS THEN "sdxl" ELSE platform

safe_mode_of(p) == IF "safe_mode" \in DOMAIN p THEN p.safe_mode ELSE TRUE

complexity_of(p) == IF "complexity" \in DOMAIN p THEN p.complexity ELSE 3

quality_of(p) == IF "quality" \in DOMAIN p THEN p.quality ELSE 70

\* build_prompt, lines 354-383: the top-level keys, the flattened fields and the pack
build_prompt_out(platform, idea, style, tags, safe_mode, complexity, quality, width, height, canonical_ar, positive, negative, pack_specific) ==
  [platform |-> platform,
   idea |-> idea,
   aspect |-> canonical_ar,
   width |-> width,
   height |-> height,
   quality |-> _clamp(quality, 0, 100),
   complexity |-> _clamp(complexity, 1, 5),
   safe_mode |-> safe_mode,
   style |-> style,
   tags |-> tags]
  @@ (IF platform = "midjourney"
      THEN [prompt |-> pack_specific.prompt, negative |-> pack_specific.negative_hint]
      ELSE IF platform \in {"pika", "runway"}
      THEN [prompt |-> pack_specific.text_prompt, negative |-> pack_specific.negative_prompt]
      ELSE [positive |-> positive, prompt |-> positive, negative |-> negative])
  @@ [platform_pack |-> pack_specific]

\* build_prompt, line 350: the platform-specific packaging
build_prompt_packed(platform, idea, style, tags, safe_mode, complexity, quality, width, height, canonical_ar, positive, negative) ==
  build_prompt_out(platform, idea, style, tags, safe_mode, complexity, quality,
                   width, height, canonical_ar, positive, negative,
                   _platform_pack(platform, positive, negative, width, height, quality, complexity))

\* build_prompt, lines 338-347: the aspect, the positive and the negative
build_prompt_built(platform, idea, style, tags, negative_in, safe_mode, complexity, quality, parsed) ==
  build_prompt_packed(platform, idea, style, tags, safe_mode, complexity, quality,
                      parsed[1], parsed[2], parsed[3],
                      _build_positive(idea, _expand_style(style), tags, complexity, safe_mode),
                      _merge_negative(platform, negative_in, safe_mode))

build_prompt(p) ==
  build_prompt_built(platform_of(p),
                     strip(get_or(p, "idea", "")),
                     strip(get_or(p, "style", "")),
                     _tag_list(strip(get_or(p, "extra_tags", ""))),
                     strip(get_or(p, "negative", "")),
                     safe_mode_of(p),
                     complexity_of(p),
                     quality_of(p),
                     _parse_aspect(get_or(p, "aspect", "16:9")))

\* NEGATIVE_BASE after build_prompt(p): its one call of _merge_negative
NEGATIVE_BASE_after_build_prompt(p) ==
  NEGATIVE_BASE_after_merge_negative(platform_of(p), strip(get_or(p, "negative", "")))


(***************************************************************************)
(* The requests the model submits.  A JSON body is a function from the     *)
(* keys it holds to strings; an absent key is absent from its domain.      *)
(***************************************************************************)
\* the joined, deduplicated default terms: what build_negative returns for no user negative
DefaultNegative == join(", ", dedup_preserve(NEGATIVE_DEFAULT_0))

\* a user negative whose second term is cut by the clamp right after its first character
CutNegative ==
  LET head == "x" \o ELLIPSIS
      room == MAX_CHARS - Len(DefaultNegative) - 2 - Len(head) - 2 - 2 - 1
  IN head \o ", " \o Rep("f", room) \o ", xyz"

\* an idea with matches in every style category
StyledIdea ==
  "Cinematic 8K portrait, soft lighting, rule of thirds, moody, vibrant film grain, bokeh anime manga dragon castle knight sword river mountain forest bridge tower"

Ideas ==
  {"masterpiece photo of a cat on a rooftop at golden hour",
   "a cat",
   "of the",
   "cat cat dog",
   StyledIdea,
   "88kk 4k highres robot 2024",
   Rep("z", LongLen) \o " cat",
   "   ",
   ""}

Negatives ==
  {"extra watermark, my custom term",
   " , ,blurry ,, new term , new term",
   CutNegative,
   "first, " \o Rep("n", LongNegLen) \o ", last"}

AspectRatios == {"1:1", "16:9", "9:16", "2:3", "3:2", "bogus", " 16:9 "}

Lightings == {"neon glow rim"}

ColorGrades == {"pastel cat"}

ExtraTags == {"trending cat artstation extra", Rep("q", LongLen)}

\* nothing, or one value of S
Optional(S) == {<<>>} \cup {<<v>> : v \in S}

Field(key, opt) == IF opt = <<>> THEN <<>> ELSE key :> opt[1]

Body6(i, n, a, l, c, e) ==
  Field("idea", i) @@ Field("negative", n) @@ Field("aspect_ratio", a)
    @@ Field("lighting", l) @@ Field("color_grade", c) @@ Field("extra_tags", e)

\* every combination of the texts, under no, a known and an unknown ratio
TextRequests ==
  {Body6(i, n, a, l, c, e) :
     i \in Optional(Ideas), n \in Optional(Negatives), a \in Optional({"16:9", "bogus"}),
     l \in Optional(Lightings), c \in Optional(ColorGrades), e \in Optional(ExtraTags)}

\* every ratio, under two ideas
RatioRequests ==
  {Body6(i, <<>>, a, <<>>, <<>>, <<>>) :
     i \in {<<"a cat">>, <<"88kk 4k highres robot 2024">>}, a \in Optional(AspectRatios)}

\* overrides of one token and of several, under an idea with matches for
\* both overridden categories and under one with none
OverrideRequests ==
  {Body6(i, <<>>, <<>>, l, c, <<>>) :
     i \in {<<StyledIdea>>, <<"a cat">>},
     l \in Optional({"neon", "neon glow rim"}), c \in Optional({"pastel", "pastel cat"})}

\* ideas sent alone: a repeated subject term among more than eight, and
\* style phrases inside longer words and out of their table order
PlainIdeas ==
  {"cat cat dog bird fish lion wolf bear deer frog",
   "manga animesque castle 4k x8k highres golden hourglass soft lighting"}

PlainRequests == {Body6(<<i>>, <<>>, <<>>, <<>>, <<>>, <<>>) : i \in PlainIdeas}

Requests == TextRequests \cup RatioRequests \cup OverrideRequests \cup PlainRequests

(***************************************************************************)
(* src/app.py and src/gunicorn.conf.py: who works on the database.  The    *)
(* one gunicorn worker handles requests on its gthread threads, two of     *)
(* them here; the BackgroundScheduler runs its jobs on a thread of its     *)
(* own, one instance of a job at a time.                                   *)
(***************************************************************************)
Threads == {"thread-1", "thread-2"}

Scheduler == "scheduler"

\* the row bootstrap_demo_key writes at start-up; NULL is <<>>
api_keys_0 == "demo123" :> [daily_limit |-> 50, expires_at |-> <<>>, status |-> "active"]

(***************************************************************************)
(* The state machine: a request arrives, the /optimize handler answers it, *)
(* the answer is delivered and the request-scoped values are dropped.      *)
(***************************************************************************)
Init ==
  /\ STYLE_KEYWORDS = STYLE_KEYWORDS_0
  /\ NEGATIVE_DEFAULT = NEGATIVE_DEFAULT_0
  /\ AR_TO_RES = AR_TO_RES_0
  /\ STOPWORDS = STOPWORDS_0
  /\ request = <<>>
  /\ response = <<>>
  /\ earlier = <<>>
  /\ NEGATIVE_BASE = NEGATIVE_BASE_0
  /\ STYLE_PRESETS = STYLE_PRESETS_0
  /\ pr = <<>>
  /\ pack = <<>>
  /\ sent_emails = <<>>
  /\ resends = <<>>
  /\ retry_runs = [t \in Threads \cup {Scheduler} |-> <<>>]
  /\ upsell_follow_ups = <<>>
  /\ deliveries = <<>>
  /\ upsell_runs = [t \in Threads \cup {Scheduler} |-> <<>>]
  /\ utcnow = 0
  /\ api_keys = api_keys_0
  /\ usage = <<>>
  /\ calls = [t \in Threads |-> <<>>]

\* a POST /optimize with JSON body `data` arrives
Submit(data) ==
  /\ request = <<>>
  /\ request' = <<data>>
  /\ UNCHANGED <<tables, store, NEGATIVE_DEFAULT, response, earlier, engine>>

\* optimize(): result, status_code = _optimize_core(data)
optimize_step ==
  /\ request # <<>>
  /\ response = <<>>
  /\ response' = <<_optimize_core(request[1])>>
  /\ NEGATIVE_DEFAULT' = NEGATIVE_DEFAULT_after_optimize_core(request[1])
  /\ UNCHANGED <<tables, store, request, engine>>

optimize == optimize_step /\ UNCHANGED earlier

\* the answer leaves; the request-scoped values are discarded
Deliver_step ==
  /\ response # <<>>
  /\ request' = <<>>
  /\ response' = <<>>
  /\ UNCHANGED <<tables, store, NEGATIVE_DEFAULT, engine>>

Deliver == Deliver_step /\ UNCHANGED earlier

Next ==
  \/ \E data \in Requests : Submit(data)
  \/ optimize
  \/ Deliver

Spec == Init /\ [][Next]_vars

(***************************************************************************)
(* The same machine with an observer: one exchange is kept in `earlier`,   *)
(* with the number of invocations on other inputs that have run since, so  *)
(* that a later invocation on the same input can be compared with it.      *)
(***************************************************************************)
\* how many invocations on other inputs the observer counts
MaxBetween == 2

HistoryRequests ==
  {Body6(i, n, a, <<>>, <<>>, e) :
     i \in {<<"a cat">>, <<"masterpiece photo of a cat on a rooftop at golden hour">>, <<"">>},
     n \in Optional({"extra watermark, my custom term"}),
     a \in Optional({"16:9"}),
     e \in Optional({"trending cat artstation extra"})}

HistorySubmit(data) ==
  /\ request = <<>>
  /\ request' = <<data>>
  /\ UNCHANGED <<tables, store, NEGATIVE_DEFAULT, response, earlier, engine>>

HistoryOptimize ==
  /\ optimize_step
  /\ IF earlier # <<>> /\ earlier[1].data # request[1]
     THEN /\ earlier[1].between < MaxBetween
          /\ earlier' = <<[earlier[1] EXCEPT !.between = @ + 1]>>
     ELSE UNCHANGED earlier

HistoryDeliver ==
  /\ Deliver_step
  /\ \/ UNCHANGED earlier
     \/ /\ earlier = <<>>
        /\ earlier' = <<[data |-> request[1], result |-> response[1], between |-> 0]>>

HistoryNext ==
  \/ \E data \in HistoryRequests : HistorySubmit(data)
  \/ HistoryOptimize
  \/ HistoryDeliver

HistorySpec == Init /\ [][HistoryNext]_vars

(***************************************************************************)
(* The calls of build_prompt, next to the /optimize exchanges: a caller    *)
(* passes a dict, build_prompt runs, the caller takes the pack.            *)
(***************************************************************************)
\* a dict is a function from the keys it holds to their values: texts, a
\* boolean for safe_mode, integers for complexity and quality
Pr(platform, idea, style, aspect, extra_tags, negative, safe_mode, complexity, quality) ==
  Field("platform", platform) @@ Field("idea", idea) @@ Field("style", style)
    @@ Field("aspect", aspect) @@ Field("extra_tags", extra_tags) @@ Field("negative", negative)
    @@ Field("safe_mode", safe_mode) @@ Field("complexity", complexity) @@ Field("quality", quality)

PlatformNames ==
  {"sdxl", "comfyui", "midjourney", "pika", "runway", "MidJourney", "dalle", " pika", ""}

\* every platform name, with and without a style, a negative and safe_mode
PlatformCalls ==
  {Pr(f, <<"a red fox , Explicit  art">>, s, <<>>, <<"forest, ,mist">>, n, m, <<>>, <<>>) :
     f \in Optional(PlatformNames), s \in Optional({"Anime, noir"}),
     n \in Optional({" watermark, NSFW text "}), m \in Optional({TRUE, FALSE})}

\* aspects of every form, under qualities and complexities in and out of range
AspectCalls ==
  {Pr(<<"midjourney">>, <<"a red fox">>, <<>>, <<a>>, <<>>, <<>>, <<>>, c, q) :
     a \in {"1:1", "1920x1080", "portrait", "bogus", "4:3", "0:5", "2.39:1", " 9 : 16 ",
            "-4:3", "4:", "12xx"},
     c \in Optional({0, 5}), q \in Optional({55, 150})}

\* every platform under qualities and complexities below, at and above range
HintCalls ==
  {Pr(<<f>>, <<"a red fox">>, <<>>, <<>>, <<>>, <<>>, <<>>, <<c>>, <<q>>) :
     f \in PLATFORMS, c \in {-2, 1, 9}, q \in {-20, 100, 150}}

\* filtered terms in each of the four texts: in lower case, in mixed case,
\* and one that forms once the term inside it has been removed
SafeCalls ==
  {Pr(<<"sdxl">>, <<i>>, s, <<>>, t, n, m, <<>>, <<>>) :
     i \in {"a nsfw fox", "an nSfW fox", "a nsnsfwfw fox", "a red fox"},
     s \in Optional({"erotic"}), t \in Optional({"fetish, mist"}),
     n \in Optional({"porn"}), m \in Optional({TRUE, FALSE})}

Calls == PlatformCalls \cup AspectCalls \cup HintCalls \cup SafeCalls

\* the /optimize requests that run next to the calls
SideRequests ==
  {Body6(<<"a cat">>, n, <<>>, <<>>, <<>>, <<>>) : n \in Optional({"extra watermark, my custom term"})}

\* a caller passes the dict p to build_prompt
CallBuildPrompt(p) ==
  /\ pr = <<>>
  /\ pr' = <<p>>
  /\ UNCHANGED <<tables, store, NEGATIVE_DEFAULT, request, response, earlier, NEGATIVE_BASE, STYLE_PRESETS, pack>>

\* build_prompt runs on the dict and returns the pack
RunBuildPrompt ==
  /\ pr # <<>>
  /\ pack = <<>>
  /\ pack' = <<build_prompt(pr[1])>>
  /\ NEGATIVE_BASE' = NEGATIVE_BASE_after_build_prompt(pr[1])
  /\ UNCHANGED <<tables, store, NEGATIVE_DEFAULT, request, response, earlier, STYLE_PRESETS, pr>>

\* the caller takes the pack; the call's values are dropped
ReturnPack ==
  /\ pack # <<>>
  /\ pr' = <<>>
  /\ pack' = <<>>
  /\ UNCHANGED <<tables, store, NEGATIVE_DEFAULT, request, response, earlier, NEGATIVE_BASE, STYLE_PRESETS>>

EngineNext ==
  \/ \E p \in Calls : CallBuildPrompt(p)
  \/ RunBuildPrompt
  \/ ReturnPack
  \/ \E data \in SideRequests : Submit(data)
  \/ optimize
  \/ Deliver

EngineSpec == Init /\ [][EngineNext]_vars

\* build_prompt has returned the pack of the call in progress
Packed == pr # <<>> /\ pack # <<>>

\* the handler has answered the request in flight
Answered == request # <<>> /\ response # <<>>


(***************************************************************************)
(* What the claims speak about: the answered request and its prompts.      *)
(***************************************************************************)
Succeeded == Answered /\ response[1].status = 200

Data == request[1]

Body == response[1].body

Positive == Body.unified.positive

Negative == Body.unified.negative

\* the terms of an output string
Terms(s) == split(s, ", ")

\* the eight sections of the positive prompt of the answered request, in the
\* order the specification names them
Sections ==
  LET ex == extract_categories(user_text_of(Data))
      extras == extras_of(Data)
  IN <<quality_terms(ex.found), core_subject(ex.subject_terms), style_terms(ex.found),
       lighting_terms(ex.found, extras), composition_terms(ex.found), mood_terms(ex.found),
       color_terms(ex.found, extras), extra_tag_terms(extras)>>

\* the first of the sections `secs` that contributes term t
FirstSection(secs, t) == Min({k \in 1..8 : t \in Range(secs[k])})

Contributed(secs, t) == \E k \in 1..8 : t \in Range(secs[k])

\* s was cut by the clamp
Cut(s) == Len(s) = MAX_CHARS + 1 /\ Char(s, MAX_CHARS + 1) = ELLIPSIS

NoRepeat(seq) == \A i, j \in 1..Len(seq) : i # j => seq[i] # seq[j]

\* C1: the terms of the positive prompt stand in the section order quality,
\* subject, style, lighting, composition, mood, color grade, extra tags: every
\* term but the one a cut may leave at the end comes from a section, and a term
\* whose first contributing section is later never precedes a term whose first
\* contributing section is earlier.
C1_SectionOrder ==
  Succeeded =>
    LET out == Terms(Positive)
        secs == Sections
        whole == {i \in 1..Len(out) : Contributed(secs, out[i])}
        first == [i \in whole |-> FirstSection(secs, out[i])]
    IN /\ \A i \in (1..Len(out)) \ whole : i = Len(out) /\ (Positive = "" \/ Cut(Positive))
       /\ \A i, j \in whole : i < j => first[i] <= first[j]

\* C1 witness: a prompt with terms of five sections around empty ones, one of
\* its terms contributed by two sections
C1_Witness ==
  /\ Succeeded
  /\ LET secs == Sections
     IN /\ secs[1] # <<>> /\ secs[2] # <<>> /\ secs[3] = <<>> /\ secs[4] # <<>>
        /\ secs[5] = <<>> /\ secs[7] # <<>> /\ secs[8] # <<>>
        /\ \E t \in Range(secs[2]) : t \in Range(secs[8])
  /\ Len(Terms(Positive)) >= 5

\* C2: no term occurs twice in the positive or in the negative string.
C2_NoTermTwice ==
  Succeeded => NoRepeat(Terms(Positive)) /\ NoRepeat(Terms(Negative))

\* C3: the positive and the negative string are at most 851 characters long.
C3_LengthBound ==
  Succeeded => Len(Positive) <= 851 /\ Len(Negative) <= 851

\* C3 witness: both strings were longer than 850 characters and were cut
C3_Witness ==
  /\ Succeeded
  /\ Len(Positive) = 851 /\ Len(Negative) = 851
  /\ Len(get_or(Data, "idea", "")) > 851
  /\ Len(get_or(Data, "negative", "")) > 300


\* C4: an invocation on the input of an earlier invocation returns the record
\* the earlier one returned, whatever invocations ran in between.
C4_SameInputSameRecord ==
  (Answered /\ earlier # <<>> /\ earlier[1].data = Data) => response[1] = earlier[1].result

\* C4 witness: the input of the kept exchange is answered again, successfully,
\* after invocations on other inputs
C4_Witness ==
  /\ Succeeded
  /\ earlier # <<>>
  /\ earlier[1].data = Data
  /\ earlier[1].between >= 1
  /\ response[1] = earlier[1].result


\* the idea is missing, empty or made of whitespace only
IdeaBlank(data) ==
  "idea" \notin DOMAIN data \/ \A i \in 1..Len(data.idea) : Char(data.idea, i) \in WHITESPACE

\* C5: a missing, empty or whitespace-only idea is answered with an error
\* record and status 400 and no prompt or package is built; every other idea
\* is answered with a success record and status 200.
C5_BlankIdeaRejected ==
  Answered =>
    IF IdeaBlank(Data)
    THEN response[1].status = 400 /\ DOMAIN Body = {"error"}
    ELSE /\ response[1].status = 200
         /\ {"unified", "sdxl", "comfyui", "midjourney", "pika", "runway"} \subseteq DOMAIN Body

\* C5 witness: a whitespace-only idea has been answered 400
C5_Witness ==
  /\ Answered
  /\ "idea" \in DOMAIN Data /\ Len(Data.idea) > 0 /\ IdeaBlank(Data)
  /\ response[1].status = 400

KnownRatios == {"1:1", "16:9", "9:16", "2:3", "3:2"}

\* C6: the SDXL and the ComfyUI package carry the table's pair for each of
\* the five known ratios (1344x768 for "16:9") and 1024x1024 for any other
\* ratio string, and the ComfyUI size is the SDXL size.
C6_AspectLookup ==
  Succeeded =>
    LET a == aspect_ratio_of(Data)
        s == Body.sdxl.settings
        c == Body.comfyui.settings
    IN /\ a \in KnownRatios => <<s.width, s.height>> = AR_TO_RES[a]
       /\ a = "16:9" => s.width = 1344 /\ s.height = 768
       /\ a \notin KnownRatios => s.width = 1024 /\ s.height = 1024
       /\ c.width = s.width /\ c.height = s.height

\* C6 witness: an unknown ratio string has been answered with the square size
C6_Witness ==
  /\ Succeeded
  /\ "aspect_ratio" \in DOMAIN Data /\ Data.aspect_ratio = "bogus"
  /\ Body.sdxl.settings.width = 1024 /\ Body.comfyui.settings.height = 1024

\* the entries of seq that are not empty and not a repeat of an earlier entry
FirstOccurrences(seq) ==
  LET idx == SortedSeq({i \in 1..Len(seq) : seq[i] # "" /\ \A j \in 1..(i - 1) : seq[j] # seq[i]})
  IN [k \in 1..Len(idx) |-> seq[idx[k]]]

\* the default terms in first-occurrence order, then the user's terms that
\* are not among them, joined
MergedNegative ==
  LET user == user_terms(user_negative_of(Data))
      fresh == SelectSeq(user, LAMBDA t : t \notin Range(NEGATIVE_DEFAULT))
  IN join(", ", FirstOccurrences(NEGATIVE_DEFAULT) \o FirstOccurrences(fresh))

\* C7 as claimed: the negative string is the merged terms, whatever their length.
C7_NegativeMergeUnclamped ==
  Succeeded => Negative = MergedNegative

\* C7: the negative string is the default terms in first-occurrence order
\* followed by the user's terms not already present, joined with ", ", and cut
\* to its first 850 characters and an ellipsis when that is longer than 850.
C7_NegativeMerge ==
  Succeeded =>
    LET full == MergedNegative
    IN Negative = IF Len(full) <= 850 THEN full ELSE SubSeq(full, 1, 850) \o ELLIPSIS

\* C7 witness: the user repeats a default term and adds a new one; the
\* default keeps its place and the new term follows every default term
C7_Witness ==
  /\ Succeeded
  /\ LET user == user_terms(user_negative_of(Data))
         out == Terms(Negative)
         n == Len(FirstOccurrences(NEGATIVE_DEFAULT))
     IN /\ "blurry" \in Range(user) /\ "new term" \in Range(user)
        /\ Len(out) = n + 1
        /\ out[n + 1] = "new term"
        /\ Cardinality({i \in 1..Len(out) : out[i] = "blurry"}) = 1

\* the size the aspect table gives for ratio a
TableSize(a) == IF a \in KnownRatios THEN AR_TO_RES[a] ELSE <<1024, 1024>>

\* C8 as claimed: steps=25, cfg_scale=7.0 and seed=-1.
C8_SdxlAsClaimed ==
  Succeeded =>
    LET x == Body.sdxl
    IN /\ DOMAIN x = {"positive", "negative", "settings"}
       /\ x.settings.steps = 25
       /\ x.settings.cfg_scale = "7.0"
       /\ "seed" \in DOMAIN x.settings
       /\ x.settings.seed = -1
       /\ <<x.settings.width, x.settings.height>> = TableSize(aspect_ratio_of(Data))

\* C8: the SDXL package has the shape {positive, negative, settings} with the
\* fixed parameters steps=30 and cfg_scale=6.5 and no seed, and width/height
\* from the aspect table (1344x768 for "16:9").
C8_SdxlPackage ==
  Succeeded =>
    LET x == Body.sdxl
        a == aspect_ratio_of(Data)
    IN /\ DOMAIN x = {"positive", "negative", "settings"}
       /\ x.positive = Positive /\ x.negative = Negative
       /\ DOMAIN x.settings = {"width", "height", "steps", "cfg_scale", "sampler", "scheduler", "model"}
       /\ x.settings.steps = 30
       /\ x.settings.cfg_scale = "6.5"
       /\ <<x.settings.width, x.settings.height>> = TableSize(a)
       /\ a = "16:9" => x.settings.width = 1344 /\ x.settings.height = 768

\* C8 witness: a 16:9 request has been packaged for SDXL
C8_Witness ==
  /\ Succeeded
  /\ aspect_ratio_of(Data) = "16:9"
  /\ Body.sdxl.settings.width = 1344 /\ Body.sdxl.settings.height = 768
  /\ Body.sdxl.settings.steps = 30

MidjourneyFlags(ratio) == " --v 6 --ar " \o ratio \o " --stylize 200 --chaos 5"

\* C9 as claimed: the --ar flag carries the requested ratio, whatever it is.
C9_MidjourneyAsClaimed ==
  Succeeded =>
    Body.midjourney = replace(Positive, "8k", "ultra high detail") \o MidjourneyFlags(aspect_ratio_of(Data))

\* C9: the Midjourney string is the positive prompt with every "8k" replaced
\* by "ultra high detail", followed by " --v 6 --ar {ratio} --stylize 200
\* --chaos 5", where {ratio} is the requested ratio when it is one of the five
\* known keys and "1:1" otherwise; the part before " --v 6" holds no "8k".
C9_Midjourney ==
  Succeeded =>
    LET a == aspect_ratio_of(Data)
        flags == MidjourneyFlags(IF a \in KnownRatios THEN a ELSE "1:1")
        mj == Body.midjourney
        head == SubSeq(mj, 1, Len(mj) - Len(flags))
        hits == {i \in 1..(Len(Positive) - 1) : SubSeq(Positive, i, i + 1) = "8k"}
    IN /\ mj = head \o flags
       /\ head = replace(Positive, "8k", "ultra high detail")
       /\ Len(head) = Len(Positive) + Cardinality(hits) * (Len("ultra high detail") - 2)
       /\ ~contains(head, "8k")

\* C9 witness: a prompt holding "8k" has been packaged under an unknown ratio
C9_Witness ==
  /\ Succeeded
  /\ contains(Positive, "8k")
  /\ aspect_ratio_of(Data) \notin KnownRatios
  /\ contains(Body.midjourney, "ultra high detail")
  /\ contains(Body.midjourney, " --ar 1:1 ")

\* C10: when no quality keyword matches, the positive prompt starts with the
\* fallback "masterpiece, best quality, highly detailed"; when some match, it
\* starts with a quality term and uses at most three of them.
C10_QualityFallback ==
  Succeeded =>
    LET matched == extract_categories(user_text_of(Data)).found.quality
        out == Terms(Positive)
        fallback == "masterpiece, best quality, highly detailed"
    IN IF matched = <<>>
       THEN Len(Positive) >= Len(fallback) /\ SubSeq(Positive, 1, Len(fallback)) = fallback
       ELSE /\ out[1] \in Range(matched)
            /\ Cardinality({i \in 1..Len(out) : out[i] \in Range(STYLE_KEYWORDS.quality)}) <= 3


\* the subject terms extract_categories returns for the answered request
SubjectTerms == extract_categories(user_text_of(Data)).subject_terms

\* C11: the positive prompt of a non-empty idea is never the empty string:
\* when extraction yields no subject term, the subject section is the
\* fallback "primary subject".
C11_SubjectFallback ==
  Succeeded =>
    /\ Positive # ""
    /\ SubjectTerms = <<>> => "primary subject" \in Range(Terms(Positive))


\* the style phrases extract_categories matches for the answered request
Found == extract_categories(user_text_of(Data)).found

\* C12 as claimed: with a non-empty override the section holds override
\* tokens only; the matched terms are used only when there is no override.
C12_OverrideAsClaimed ==
  Succeeded =>
    LET secs == Sections
        extras == extras_of(Data)
    IN /\ extras.lighting # "" => Range(secs[4]) \subseteq Range(tokenize(extras.lighting))
       /\ extras.color_grade # "" => Range(secs[7]) \subseteq Range(tokenize(extras.color_grade))

\* sec is the first two of: the override's tokens, then the first two matched terms
OverrideFirst(sec, override, matched) ==
  LET toks == tokenize(override)
      n == Min({2, Len(toks)})
      m == Min({2 - n, Len(matched)})
  IN /\ Len(sec) = n + m
     /\ \A i \in 1..n : sec[i] = toks[i]
     /\ \A i \in 1..m : sec[n + i] = matched[i]

\* C12: in the lighting and in the color-grade section the override's tokens
\* come first and the section holds at most two terms: the first two of the
\* override's tokens followed by the first matched terms of the category, so a
\* matched term is used when there is no override or when the override has a
\* single token; the terms of both sections are in the uncut positive prompt.
C12_OverridePriority ==
  Succeeded =>
    LET secs == Sections
        extras == extras_of(Data)
        found == Found
    IN /\ OverrideFirst(secs[4], extras.lighting, found.lighting)
       /\ OverrideFirst(secs[7], extras.color_grade, found.color_grades)
       /\ ~Cut(Positive) => Range(secs[4]) \cup Range(secs[7]) \subseteq Range(Terms(Positive))

\* C12 witness: one-token overrides for lighting and color grade, each
\* followed in its section by the first term matched in the idea
C12_Witness ==
  /\ Succeeded
  /\ LET secs == Sections
         extras == extras_of(Data)
         found == Found
     IN /\ extras.lighting = "neon" /\ extras.color_grade = "pastel"
        /\ found.lighting # <<>> /\ found.color_grades # <<>>
        /\ secs[4] = <<"neon", found.lighting[1]>>
        /\ secs[7] = <<"pastel", found.color_grades[1]>>
        /\ {"neon", found.lighting[1], "pastel", found.color_grades[1]} \subseteq Range(Terms(Positive))


\* C13: the subject terms are tokens that are no stopword and longer than 2
\* characters, with no duplicates, and the subject section of the positive
\* prompt holds the first 8 distinct subject terms.
C13_SubjectTerms ==
  Succeeded =>
    LET terms == SubjectTerms
    IN /\ \A i \in 1..Len(terms) : terms[i] \notin STOPWORDS /\ Len(terms[i]) > 2
       /\ NoRepeat(terms)
       /\ ~Cut(Positive) =>
            Range(Take(FirstOccurrences(terms), 8)) \subseteq Range(Terms(Positive))


\* the positive prompt of the answered request before the clamp: the distinct
\* terms of its sections, joined
FullPositive ==
  LET secs == Sections
  IN join(", ", FirstOccurrences(secs[1] \o secs[2] \o secs[3] \o secs[4]
                                   \o secs[5] \o secs[6] \o secs[7] \o secs[8]))

\* C14: the clamp is a hard character slice: a joined string of at most 850
\* characters is returned unchanged, a longer one as exactly its first 850
\* characters followed by one ellipsis, wherever in a term the cut falls.
C14_HardSlice ==
  Succeeded =>
    LET full == FullPositive
    IN IF Len(full) <= 850
       THEN Positive = full
       ELSE /\ Len(Positive) = 851
            /\ SubSeq(Positive, 1, 850) = SubSeq(full, 1, 850)
            /\ SubSeq(Positive, 851, 851) = ELLIPSIS

\* C14 witness: a prompt of several terms was cut in the middle of a term
C14_Witness ==
  /\ Succeeded
  /\ LET full == FullPositive
     IN /\ Len(full) > 851
        /\ contains(SubSeq(full, 1, 850), ", ")
        /\ SubSeq(full, 850, 850) \in TOKEN_CHARS
        /\ SubSeq(full, 851, 851) \in TOKEN_CHARS
        /\ Positive = SubSeq(full, 1, 850) \o ELLIPSIS


\* C15: a success record holds the unified pair and a package for each of
\* sdxl, comfyui, midjourney, pika and runway, all built from that pair: the
\* sdxl, comfyui and runway prompts are the unified positive, the sdxl and
\* comfyui negatives are the unified negative, and the pika prompt is the
\* unified positive followed by the fixed suffix.
C15_PackagesShareThePair ==
  Succeeded =>
    /\ {"unified", "sdxl", "comfyui", "midjourney", "pika", "runway"} \subseteq DOMAIN Body
    /\ DOMAIN Body.unified = {"positive", "negative"}
    /\ Body.sdxl.positive = Positive /\ Body.comfyui.positive = Positive
    /\ Body.runway.text_prompt = Positive
    /\ Body.sdxl.negative = Negative /\ Body.comfyui.negative = Negative
    /\ Body.pika.prompt = Positive \o ", animated micro-details, smooth motion, temporal consistency"

\* C15 witness: a record whose pair carries user terms on both sides
C15_Witness ==
  /\ Succeeded
  /\ "cat" \in Range(Terms(Positive))
  /\ "my custom term" \in Range(Terms(Negative))
  /\ Body.runway.text_prompt = Positive
  /\ Len(Body.pika.prompt) > Len(Positive)


\* the platform name the caller sent, "" when it sent none
SentPlatform == IF "platform" \in DOMAIN pr[1] THEN pr[1].platform ELSE ""

\* C16: the pack of build_prompt has the top-level keys platform, prompt and
\* negative, and positive for sdxl and comfyui; its platform is one of sdxl,
\* comfyui, midjourney, pika, runway: the name sent when that is one of the
\* five, sdxl when the name is missing or unknown; and the platform of
\* platform_pack is the top-level platform.
C16_PackShape ==
  Packed =>
    LET out == pack[1]
    IN /\ {"platform", "prompt", "negative", "platform_pack"} \subseteq DOMAIN out
       /\ out.platform \in {"sdxl", "comfyui"} => "positive" \in DOMAIN out
       /\ out.platform \in {"sdxl", "comfyui", "midjourney", "pika", "runway"}
       /\ SentPlatform \in {"sdxl", "comfyui", "midjourney", "pika", "runway"} => out.platform = SentPlatform
       /\ SentPlatform \in {"", "dalle", " pika"} => out.platform = "sdxl"
       /\ out.platform_pack.platform = out.platform

\* C16 witness: an unknown platform name has been packed as sdxl
C16_Witness ==
  /\ Packed
  /\ SentPlatform = "dalle"
  /\ pack[1].platform = "sdxl" /\ pack[1].platform_pack.platform = "sdxl"
  /\ pack[1].positive = pack[1].prompt

\* C17: the static tables hold what they held at start, whatever calls of
\* _optimize_core and build_prompt have run.
C17_TablesReadOnly ==
  /\ STYLE_KEYWORDS = STYLE_KEYWORDS_0
  /\ NEGATIVE_DEFAULT = NEGATIVE_DEFAULT_0
  /\ STOPWORDS = STOPWORDS_0
  /\ AR_TO_RES = AR_TO_RES_0
  /\ NEGATIVE_BASE = NEGATIVE_BASE_0
  /\ STYLE_PRESETS = STYLE_PRESETS_0

\* C17 witness: a call of _optimize_core and a call of build_prompt have both
\* merged a user negative into their platform's terms
C17_Witness ==
  /\ Succeeded /\ Packed
  /\ user_negative_of(Data) # ""
  /\ "my custom term" \in Range(Terms(Negative))
  /\ "negative" \in DOMAIN pr[1]
  /\ Len(pack[1].negative) > Len(join(", ", NEGATIVE_BASE_0[pack[1].platform]))
  /\ NEGATIVE_BASE = NEGATIVE_BASE_0 /\ NEGATIVE_DEFAULT = NEGATIVE_DEFAULT_0


\* sub occurs somewhere in s
Occurs(sub, s) == \E i \in 1..(Len(s) - Len(sub) + 1) : SubSeq(s, i, i + Len(sub) - 1) = sub

\* the tokens the caller's overrides and extra tags bring in
OverrideTokens ==
  LET extras == extras_of(Data)
  IN Range(tokenize(extras.lighting)) \cup Range(tokenize(extras.color_grade))
       \cup Range(tokenize(extras.extra_tags))

\* C18: a style phrase is matched exactly when it occurs as a substring of
\* the lowercased idea, token boundaries or not; the matches of a category
\* stand in the order of the category's static list; and of the matches of a
\* category the positive prompt uses none beyond the first two.
C18_SubstringMatching ==
  Succeeded =>
    LET found == Found
        text == lower(user_text_of(Data))
        out == Range(Terms(Positive))
        others == OverrideTokens
    IN \A k \in DOMAIN STYLE_KEYWORDS :
         LET table == STYLE_KEYWORDS[k]
             hits == SortedSeq({i \in 1..Len(table) : Occurs(table[i], text)})
         IN /\ Len(found[k]) = Len(hits)
            /\ \A j \in 1..Len(hits) : found[k][j] = table[hits[j]]
            /\ ~Cut(Positive) =>
                 \A j \in 3..Len(hits) : found[k][j] \in out => found[k][j] \in others

\* C18 witness: "anime" matched inside "animesque" and listed before "manga",
\* which the text has first; three quality matches, the third one left out
C18_Witness ==
  /\ Succeeded
  /\ LET found == Found
         out == Terms(Positive)
     IN /\ found.art_styles = <<"anime", "manga">>
        /\ "anime" \notin Range(tokenize(user_text_of(Data)))
        /\ found.quality = <<"8k", "4k", "highres">>
        /\ out[1] = "8k" /\ out[2] = "4k"
        /\ "highres" \notin Range(out)
        /\ {"anime", "manga"} \subseteq Range(out)


\* C19: no subject term consists of digits only, so no such token stands in
\* the subject section of the positive prompt.
C19_NoNumericSubject ==
  Succeeded =>
    LET terms == SubjectTerms
        subject == Sections[2]
    IN /\ \A i \in 1..Len(terms) : ~IsDigits(terms[i])
       /\ \A i \in 1..Len(subject) : ~IsDigits(subject[i])


\* C20: the positive prompt has no empty term (no separator at its start or
\* end, no two separators in a row), and the Pika prompt and the Midjourney
\* string start with a term, not with a separator or a blank.
C20_NoEmptyTerm ==
  Succeeded =>
    LET out == Terms(Positive)
    IN /\ \A i \in 1..Len(out) : strip(out[i]) # ""
       /\ SubSeq(Body.pika.prompt, 1, 1) \notin {",", " "}
       /\ SubSeq(Body.midjourney, 1, 1) \notin {",", " "}

\* the aspect the caller sent, "16:9" when it sent none
SentAspect == IF "aspect" \in DOMAIN pr[1] THEN pr[1].aspect ELSE "16:9"

\* C21: for every aspect input (ratio form, pixel form, a label or anything
\* else), the smaller of the returned width and height is at most 1024.
C21_SmallerSideBound ==
  Packed => Min({pack[1].width, pack[1].height}) <= 1024

\* the sent aspects that are ratios "N:D" with positive N and D
PositiveRatios == {"1:1", "4:3", "2.39:1", " 9 : 16 ", "16:9"}

\* the sent aspects that are a malformed, zero or negative ratio, an
\* unparsable "WxH" or an unknown label
UnreadableAspects == {"bogus", "0:5", "-4:3", "4:", "12xx"}

\* the canonical string "n:d" names the ratio of w to h, up to the rounding
\* of the longer side to a multiple of 64
SameRatio(canonical, w, h) ==
  LET terms == split(canonical, ":")
  IN /\ Len(terms) = 2
     /\ parse_int(terms[1]) # <<>> /\ parse_int(terms[2]) # <<>>
     /\ LET n == parse_int(terms[1])[1]
            d == parse_int(terms[2])[1]
            off == w * d - h * n
        IN /\ n > 0 /\ d > 0
           /\ off <= 33 * Max({n, d}) /\ -off <= 33 * Max({n, d})

\* C22: _parse_aspect returns for every input: a ratio "N:D" with positive N
\* and D yields the smaller side 1024 and both sides multiples of 64; a
\* malformed, zero or negative ratio, an unparsable "WxH" and an unknown
\* label yield the fallback (1344, 768, "16:9"); and the canonical string
\* names the same ratio as the returned width and height.
C22_ParseAspectTotal ==
  Packed =>
    LET out == pack[1]
    IN /\ SentAspect \in PositiveRatios =>
            /\ Min({out.width, out.height}) = 1024
            /\ out.width % 64 = 0 /\ out.height % 64 = 0
       /\ SentAspect \in UnreadableAspects =>
            <<out.width, out.height, out.aspect>> = ASPECT_FALLBACK
       /\ SameRatio(out.aspect, out.width, out.height)

\* the steps and the guidance scale among the hints of a pack, where the
\* platform has them
StepHints(out) ==
  IF out.platform = "midjourney" THEN <<>>
  ELSE IF out.platform = "comfyui"
  THEN <<[steps |-> out.platform_pack.inputs.steps, cfg |-> out.platform_pack.inputs.cfg]>>
  ELSE IF out.platform \in {"pika", "runway"}
  THEN <<[steps |-> out.platform_pack.params.steps, cfg |-> out.platform_pack.params.guidance]>>
  ELSE <<[steps |-> out.platform_pack.params.steps, cfg |-> out.platform_pack.params.cfg]>>

\* C23: for every integer quality and complexity, also out of range, the
\* platform hints stay in their ranges and agree with the clamped quality
\* and complexity of the top level: steps in 12..42, cfg in 3..9, Midjourney
\* stylize in 50..800 and chaos in 0..40, Pika duration_seconds_hint in 4..8.
C23_HintsInRange ==
  Packed =>
    LET out == pack[1]
        hints == StepHints(out)
    IN /\ out.quality \in 0..100 /\ out.complexity \in 1..5
       /\ hints # <<>> =>
            /\ hints[1].steps \in 12..42 /\ hints[1].cfg \in 3..9
            /\ hints[1] = _quality_params(out.quality)
       /\ out.platform = "midjourney" =>
            /\ out.platform_pack.params.stylize \in 50..800
            /\ out.platform_pack.params.chaos \in 0..40
            /\ out.platform_pack.params.stylize = stylize_of(out.quality)
            /\ out.platform_pack.params.chaos = (out.complexity - 1) * 10
       /\ out.platform = "pika" =>
            /\ out.platform_pack.params.duration_seconds_hint \in 4..8
            /\ out.platform_pack.params.duration_seconds_hint = 4 + (out.complexity - 1)

\* the texts the caller sent, "" for one it did not send
Sent(key) == IF key \in DOMAIN pr[1] THEN pr[1][key] ELSE ""

\* term occurs in s in some letter case
OccursAnyCase(term, s) == Occurs(term, lower(s))

\* C24: with safe_mode on, which is the default, no SOFT_FILTER term occurs
\* in any letter case in the prompt or the negative of the pack, whichever of
\* idea, style, extra_tags and negative brought it in, a term that forms
\* once another occurrence has been removed included; with safe_mode off
\* the terms sent in the four texts are all still there.
C24_SafeModeFilters ==
  Packed =>
    LET out == pack[1]
    IN \A k \in 1..Len(SOFT_FILTER) :
         IF safe_mode_of(pr[1])
         THEN /\ ~OccursAnyCase(SOFT_FILTER[k], out.prompt)
              /\ ~OccursAnyCase(SOFT_FILTER[k], out.negative)
         ELSE /\ \A key \in {"idea", "style", "extra_tags"} :
                   OccursAnyCase(SOFT_FILTER[k], Sent(key)) => OccursAnyCase(SOFT_FILTER[k], out.prompt)
              /\ OccursAnyCase(SOFT_FILTER[k], Sent("negative")) => OccursAnyCase(SOFT_FILTER[k], out.negative)

(***************************************************************************)
(* src/app.py: the automated emails and their retries.  A row of           *)
(* sent_emails is [lead_id, trigger_type, status, retry_count]; its id is  *)
(* its place in the table.  Times are not kept: a run is taken at a time   *)
(* at which the rows it reads are inside the 24-hour window, and whether   *)
(* the backoff delay of a row has passed is the caller's clock.            *)
(***************************************************************************)
MaxEmails == 5

MaxResends == 5

\* what the prompt side of the program holds
prompts == <<tables, NEGATIVE_DEFAULT, request, response, earlier, engine>>

RECURSIVE Total(_)
Total(counts) == IF counts = <<>> THEN 0 ELSE Head(counts) + Total(Tail(counts))

\* the leads table: the one lead whose email is followed
Leads == {1}

\* the rows of sent_emails as a SELECT returns them, the id with each
email_records(rows) == [i \in 1..Len(rows) |-> [id |-> i] @@ rows[i]]

\* WHERE status='failed' AND retry_count < 3
needs_retry(r) == r.status = "failed" /\ r.retry_count < 3

\* _retry_failed_emails: SELECT ... ORDER BY sent_at ASC LIMIT 10
failed_emails(rows) == Take(SelectSeq(email_records(rows), needs_retry), 10)

\* scheduled_process_email_retries: SELECT * ... , with no LIMIT
failed_emails_scheduled(rows) == SelectSeq(email_records(rows), needs_retry)

\* _send_automated_email logs the attempt: INSERT INTO sent_emails, with
\* retry_count at its DEFAULT 0
logged(rows, lead_id, trigger_type, success) ==
  Append(rows, [lead_id |-> lead_id, trigger_type |-> trigger_type,
                status |-> IF success THEN "sent" ELSE "failed", retry_count |-> 0])

\* UPDATE sent_emails SET [status='sent',] retry_count=? WHERE id=?, with
\* the retry_count the SELECT had read, plus one
retried(rows, e, success) ==
  [rows EXCEPT ![e.id] = [@ EXCEPT !.status = IF success THEN "sent" ELSE @,
                                   !.retry_count = e.retry_count + 1]]

\* the first send of an automated email to the lead: _send_automated_email
SendAutomatedEmail(trigger_type, success) ==
  /\ sent_emails = <<>>
  /\ sent_emails' = logged(sent_emails, 1, trigger_type, success)
  /\ resends' = Append(resends, 0)
  /\ UNCHANGED <<prompts, retry_runs, upsell, keys>>

\* _retry_failed_emails on a worker thread: the SELECT
retry_fetch(t) ==
  /\ retry_runs[t] = <<>>
  /\ retry_runs' = [retry_runs EXCEPT ![t] = <<failed_emails(sent_emails)>>]
  /\ UNCHANGED <<prompts, sent_emails, resends, upsell, api_keys, usage>>

\* a request to /admin/emails/retry-failed runs _retry_failed_emails
RetryFetch(t) == calls[t] = <<>> /\ retry_fetch(t) /\ UNCHANGED calls

\* one turn of its loop.  A row whose delay has not passed is left; a
\* 'manual' row ends the run, for _send_automated_email raises on its missing
\* generation_data; any other row is sent again, the attempt is logged as a
\* new row, and the row is updated.
RetryLoop(t, due, success) ==
  /\ retry_runs[t] # <<>>
  /\ retry_runs[t][1] # <<>>
  /\ LET e == Head(retry_runs[t][1])
         rest == Tail(retry_runs[t][1])
     IN IF ~due
        THEN /\ retry_runs' = [retry_runs EXCEPT ![t] = <<rest>>]
             /\ UNCHANGED <<sent_emails, resends>>
        ELSE IF e.trigger_type = "manual"
        THEN /\ retry_runs' = [retry_runs EXCEPT ![t] = << <<>> >>]
             /\ UNCHANGED <<sent_emails, resends>>
        ELSE /\ Len(sent_emails) < MaxEmails
             /\ Total(resends) < MaxResends
             /\ sent_emails' = retried(logged(sent_emails, e.lead_id, e.trigger_type, success), e, success)
             /\ resends' = Append([resends EXCEPT ![e.id] = @ + 1], 0)
             /\ retry_runs' = [retry_runs EXCEPT ![t] = <<rest>>]
  /\ UNCHANGED <<prompts, upsell, keys>>

\* the loop is through, or an exception has ended it: _retry_failed_emails
\* returns to _run_email_retry_scheduler
retry_return(t) ==
  /\ retry_runs[t] = << <<>> >>
  /\ retry_runs' = [retry_runs EXCEPT ![t] = <<>>]
  /\ UNCHANGED <<prompts, sent_emails, resends, upsell, api_keys, usage>>

RetryReturn(t) == calls[t] = <<>> /\ retry_return(t) /\ UNCHANGED calls

\* scheduled_process_email_retries on the scheduler thread: the SELECT
ScheduledRetryFetch ==
  /\ retry_runs[Scheduler] = <<>>
  /\ retry_runs' = [retry_runs EXCEPT ![Scheduler] = <<failed_emails_scheduled(sent_emails)>>]
  /\ UNCHANGED <<prompts, sent_emails, resends, upsell, keys>>

\* one turn of its loop: a row whose lead is gone or whose trigger_type is
\* neither 'download' nor 'hire_us' is passed over; any other is sent again
\* with send_email and updated
ScheduledRetryLoop(success) ==
  /\ retry_runs[Scheduler] # <<>>
  /\ retry_runs[Scheduler][1] # <<>>
  /\ LET e == Head(retry_runs[Scheduler][1])
         rest == Tail(retry_runs[Scheduler][1])
     IN /\ retry_runs' = [retry_runs EXCEPT ![Scheduler] = <<rest>>]
        /\ IF e.lead_id \in Leads /\ e.trigger_type \in {"download", "hire_us"}
           THEN /\ Total(resends) < MaxResends
                /\ sent_emails' = retried(sent_emails, e, success)
                /\ resends' = [resends EXCEPT ![e.id] = @ + 1]
           ELSE UNCHANGED <<sent_emails, resends>>
  /\ UNCHANGED <<prompts, upsell, keys>>

\* the loop is through: the job commits and returns
ScheduledRetryReturn ==
  /\ retry_runs[Scheduler] = << <<>> >>
  /\ retry_runs' = [retry_runs EXCEPT ![Scheduler] = <<>>]
  /\ UNCHANGED <<prompts, sent_emails, resends, upsell, keys>>

EmailNext ==
  \/ \E trigger_type \in {"hire_us", "manual"}, success \in BOOLEAN :
       SendAutomatedEmail(trigger_type, success)
  \/ \E t \in Threads : RetryFetch(t)
  \/ \E t \in Threads, due \in BOOLEAN, success \in BOOLEAN : RetryLoop(t, due, success)
  \/ \E t \in Threads : RetryReturn(t)
  \/ ScheduledRetryFetch
  \/ \E success \in BOOLEAN : ScheduledRetryLoop(success)
  \/ ScheduledRetryReturn

EmailSpec == Init /\ [][EmailNext]_vars

\* the re-send attempts made for the failed email of a lead: those for the
\* record of its first send and those for the records its re-sends logged
Resent(lead) ==
  Total([i \in 1..Len(resends) |-> IF sent_emails[i].lead_id = lead THEN resends[i] ELSE 0])

\* C25: a failed automated email is retried at most 3 times: over any runs
\* of _retry_failed_emails and scheduled_process_email_retries the re-send
\* attempts made for one original failed record number at most 3, and a
\* record whose retry_count has reached 3 or whose status is 'sent' is never
\* sent again.
C25_BoundedRetries ==
  /\ [](\A lead \in Leads : Resent(lead) <= 3)
  /\ [][\A i \in 1..Len(resends) : resends'[i] > resends[i] => needs_retry(sent_emails[i])]_vars

(***************************************************************************)
(* src/app.py: the API keys and the daily quota.  A row of api_keys is     *)
(* [daily_limit, expires_at, status]; usage holds the counts of today.     *)
(***************************************************************************)
\* datetime.date.today()
today == <<2025, 1, 15>>

is_leap(year) == year % 4 = 0 /\ (year % 100 # 0 \/ year % 400 = 0)

days_in_month(year, month) ==
  IF month = 2 THEN (IF is_leap(year) THEN 29 ELSE 28)
  ELSE IF month \in {4, 6, 9, 11} THEN 30 ELSE 31

\* the date of the three numbers: <<date>>, or <<>> where there is none
date_of(year, month, day) ==
  IF year >= 1 /\ month \in 1..12 /\ day >= 1 /\ day <= days_in_month(year, month)
  THEN << <<year, month, day>> >>
  ELSE <<>>

\* datetime.date.fromisoformat(text) for the form YYYY-MM-DD, <<>> where it
\* raises ValueError
date_fromisoformat(text) ==
  IF /\ Len(text) = 10
     /\ Char(text, 5) = "-" /\ Char(text, 8) = "-"
     /\ IsDigits(SubSeq(text, 1, 4)) /\ IsDigits(SubSeq(text, 6, 7)) /\ IsDigits(SubSeq(text, 9, 10))
  THEN date_of(DigitsValue(SubSeq(text, 1, 4)), DigitsValue(SubSeq(text, 6, 7)),
               DigitsValue(SubSeq(text, 9, 10)))
  ELSE <<>>

\* date a < date b
date_before(a, b) ==
  \/ a[1] < b[1]
  \/ a[1] = b[1] /\ a[2] < b[2]
  \/ a[1] = b[1] /\ a[2] = b[2] /\ a[3] < b[3]

\* get_key_row: <<row>>, or <<>> for None
get_key_row(rows, api_key) ==
  IF api_key \notin DOMAIN rows THEN <<>>
  ELSE IF rows[api_key].status # "active" THEN <<>>
  ELSE IF rows[api_key].expires_at \notin {<<>>, <<"">>}
          /\ \/ date_fromisoformat(rows[api_key].expires_at[1]) = <<>>
             \/ date_before(date_fromisoformat(rows[api_key].expires_at[1])[1], today)
  THEN <<>>
  ELSE <<[key |-> api_key] @@ rows[api_key]>>

\* require_api_key: the X-API-Key header, stripped, or else the api_key of
\* the JSON body
key_of(req) == IF strip(req.header) # "" THEN strip(req.header) ELSE req.api_key

\* _get_usage: the count of today, 0 where there is no row
_get_usage(counts, api_key) == IF api_key \in DOMAIN counts THEN counts[api_key] ELSE 0

\* the endpoints behind require_api_key, and the one behind require_admin
GUARDED == {"/usage", "/usage/charge"}

\* a request: its endpoint, its X-API-Key header, the api_key, the amount
\* and the key of its JSON body, and whether it holds the admin token
Req(endpoint, header, api_key, amount, key, admin) ==
  [endpoint |-> endpoint, header |-> header, api_key |-> api_key, amount |-> amount,
   key |-> key, admin |-> admin]

\* the request as a thread starts on it: g is empty, nothing is read yet
NewCall(req) ==
  req @@ [pc |-> "before_request", g_api_key |-> "", g_daily_limit |-> 0, used |-> 0,
          row |-> <<>>, response |-> <<>>]

\* thread t is at step pc of a request
At(t, pc) == calls[t] # <<>> /\ calls[t][1].pc = pc

\* the request of thread t answered with status and body
Answer(call, status, body) == [call EXCEPT !.pc = "done", !.response = <<[status |-> status, body |-> body]>>]

\* a request reaches thread t
Receive(t, req) ==
  /\ calls[t] = <<>>
  /\ retry_runs[t] = <<>>
  /\ calls' = [calls EXCEPT ![t] = <<NewCall(req)>>]
  /\ UNCHANGED <<prompts, mail, upsell, api_keys, usage>>

\* before_request: random.random() >= 0.02, nothing is run
BeforeRequestSkip(t) ==
  /\ At(t, "before_request")
  /\ calls' = [calls EXCEPT ![t] = <<[@[1] EXCEPT !.pc = "view"]>>]
  /\ UNCHANGED <<prompts, mail, upsell, api_keys, usage>>

\* before_request: random.random() < 0.02, _run_email_retry_scheduler runs
BeforeRequestRetry(t) ==
  /\ At(t, "before_request")
  /\ retry_fetch(t)
  /\ calls' = [calls EXCEPT ![t] = <<[@[1] EXCEPT !.pc = "retrying"]>>]

\* ... and has returned: the view function is next
BeforeRequestReturn(t) ==
  /\ At(t, "retrying")
  /\ retry_return(t)
  /\ calls' = [calls EXCEPT ![t] = <<[@[1] EXCEPT !.pc = "view"]>>]

\* require_api_key: 401 for a key get_key_row does not return, else the
\* row's key and daily_limit go into g and the handler runs
RequireApiKey(t) ==
  /\ At(t, "view")
  /\ calls[t][1].endpoint \in GUARDED
  /\ LET call == calls[t][1]
         row == get_key_row(api_keys, key_of(call))
     IN calls' = [calls EXCEPT ![t] =
          IF row = <<>>
          THEN <<Answer(call, 401, [error |-> "Unauthorized: missing/invalid/expired API key"])>>
          ELSE <<[call EXCEPT !.pc = "handler", !.g_api_key = row[1].key,
                              !.g_daily_limit = row[1].daily_limit]>>]
  /\ UNCHANGED <<prompts, mail, upsell, api_keys, usage>>

\* require_admin: 403 without the admin token
RequireAdmin(t) ==
  /\ At(t, "view")
  /\ calls[t][1].endpoint \notin GUARDED
  /\ calls' = [calls EXCEPT ![t] =
       IF calls[t][1].admin
       THEN <<[calls[t][1] EXCEPT !.pc = "handler"]>>
       ELSE <<Answer(calls[t][1], 403, [error |-> "Forbidden"])>>]
  /\ UNCHANGED <<prompts, mail, upsell, api_keys, usage>>

\* usage_get
UsageGet(t) ==
  /\ At(t, "handler")
  /\ calls[t][1].endpoint = "/usage"
  /\ LET call == calls[t][1]
         used == _get_usage(usage, call.g_api_key)
     IN calls' = [calls EXCEPT ![t] =
          <<Answer(call, 200, [limit |-> call.g_daily_limit, used |-> used,
                               remaining |-> Max({0, call.g_daily_limit - used})])>>]
  /\ UNCHANGED <<prompts, mail, upsell, api_keys, usage>>

\* amt = max(1, int(data.get("amount", 1)))
amt_of(call) == Max({1, call.amount})

\* usage_charge up to its test of the limit: _get_usage, then 429 or on to
\* _inc_usage
UsageChargeRead(t) ==
  /\ At(t, "handler")
  /\ calls[t][1].endpoint = "/usage/charge"
  /\ LET call == calls[t][1]
         used == _get_usage(usage, call.g_api_key)
     IN calls' = [calls EXCEPT ![t] =
          IF used + amt_of(call) > call.g_daily_limit
          THEN <<Answer(call, 429, [error |-> "Daily limit reached", used |-> used,
                                    limit |-> call.g_daily_limit])>>
          ELSE <<[call EXCEPT !.pc = "_inc_usage", !.used = used]>>]
  /\ UNCHANGED <<prompts, mail, upsell, api_keys, usage>>

\* _inc_usage: its SELECT of the row of today
IncUsageSelect(t) ==
  /\ At(t, "_inc_usage")
  /\ LET call == calls[t][1]
     IN calls' = [calls EXCEPT ![t] =
          <<[call EXCEPT !.pc = "write",
                         !.row = IF call.g_api_key \in DOMAIN usage
                                 THEN <<usage[call.g_api_key]>> ELSE <<>>]>>]
  /\ UNCHANGED <<prompts, mail, upsell, api_keys, usage>>

\* _inc_usage: UPDATE usage SET count = row + amt, or INSERT with amt
usage_after_write(counts, call) ==
  (call.g_api_key :> (IF call.row # <<>> THEN call.row[1] + amt_of(call) ELSE amt_of(call))) @@ counts

\* _inc_usage: its write and commit, and the answer of usage_charge.  An
\* INSERT into a row another thread has inserted since the SELECT breaks the
\* PRIMARY KEY: the exception is answered 500.
IncUsageWrite(t) ==
  /\ At(t, "write")
  /\ LET call == calls[t][1]
     IN IF call.row = <<>> /\ call.g_api_key \in DOMAIN usage
        THEN /\ calls' = [calls EXCEPT ![t] = <<Answer(call, 500, [error |-> "IntegrityError"])>>]
             /\ UNCHANGED usage
        ELSE /\ usage' = usage_after_write(usage, call)
             /\ calls' = [calls EXCEPT ![t] =
                  <<Answer(call, 200,
                           [ok |-> TRUE, used |-> usage'[call.g_api_key], limit |-> call.g_daily_limit,
                            remaining |-> Max({0, call.g_daily_limit - usage'[call.g_api_key]})])>>]
  /\ UNCHANGED <<prompts, mail, upsell, api_keys>>

\* admin_revoke: UPDATE api_keys SET status='revoked' WHERE key=?
AdminRevoke(t) ==
  /\ At(t, "handler")
  /\ calls[t][1].endpoint = "/admin/revoke"
  /\ LET key == strip(calls[t][1].key)
     IN api_keys' = IF key \in DOMAIN api_keys
                    THEN [api_keys EXCEPT ![key] = [@ EXCEPT !.status = "revoked"]]
                    ELSE api_keys
  /\ calls' = [calls EXCEPT ![t] = <<Answer(calls[t][1], 200, [ok |-> TRUE])>>]
  /\ UNCHANGED <<prompts, mail, upsell, usage>>

\* the answer goes out; the thread is free again
Respond(t) ==
  /\ At(t, "done")
  /\ calls' = [calls EXCEPT ![t] = <<>>]
  /\ UNCHANGED <<prompts, mail, upsell, api_keys, usage>>

\* upsert_key with a new key, as gen_key makes them
UpsertKey(key, daily_limit, expires_at) ==
  /\ key \notin DOMAIN api_keys
  /\ api_keys' = (key :> [daily_limit |-> daily_limit, expires_at |-> expires_at, status |-> "active"]) @@ api_keys
  /\ UNCHANGED <<prompts, mail, upsell, usage, calls>>

(***************************************************************************)
(* The quota under concurrent requests: the threads of the worker charge   *)
(* and read the usage of the demo key, whose daily_limit stays as it is.   *)
(***************************************************************************)
ChargeRequests ==
  {Req("/usage/charge", "demo123", "", amount, "", FALSE) : amount \in {20, 30}}
    \cup {Req("/usage", " demo123 ", "", 0, "", FALSE)}

UsageNext ==
  \/ \E t \in Threads, req \in ChargeRequests : Receive(t, req)
  \/ \E t \in Threads : BeforeRequestSkip(t)
  \/ \E t \in Threads : BeforeRequestRetry(t)
  \/ \E t \in Threads : BeforeRequestReturn(t)
  \/ \E t \in Threads : RequireApiKey(t)
  \/ \E t \in Threads : UsageGet(t)
  \/ \E t \in Threads : UsageChargeRead(t)
  \/ \E t \in Threads : IncUsageSelect(t)
  \/ \E t \in Threads : IncUsageWrite(t)
  \/ \E t \in Threads : Respond(t)

UsageSpec == Init /\ [][UsageNext]_vars

\* thread t ends a /usage/charge request with this step, answering status
ChargeAnswered(t, status) ==
  /\ calls[t] # <<>> /\ calls[t][1].endpoint = "/usage/charge" /\ calls[t][1].pc # "done"
  /\ calls'[t] # <<>> /\ calls'[t][1].pc = "done"
  /\ calls'[t][1].response[1].status = status

\* C26: for every API key, with daily_limit unchanged, the stored usage
\* count of the day never exceeds daily_limit, whatever the interleaving of
\* the /usage/charge requests on the worker's threads; a charge that would
\* exceed the limit answers 429 and leaves the count unchanged, and an
\* accepted charge raises the count by exactly its amount.
C26_QuotaHolds ==
  /\ [](\A k \in DOMAIN usage : usage[k] <= api_keys[k].daily_limit)
  /\ [][\A t \in Threads :
          /\ ChargeAnswered(t, 429) => usage' = usage
          /\ ChargeAnswered(t, 200) =>
               usage'[calls[t][1].g_api_key] = _get_usage(usage, calls[t][1].g_api_key) + amt_of(calls[t][1])]_vars

(***************************************************************************)
(* The keys under the requests of one thread: keys are issued and revoked, *)
(* requests come with every kind of key, and the first send of an email    *)
(* has been logged for the retry run of before_request to find.            *)
(***************************************************************************)
\* NULL, yesterday, today, a day that does not exist, and the empty text
ExpiryTexts == {<<>>, <<"2025-01-14">>, <<"2025-01-15">>, <<"2025-02-30">>, <<"">>}

KeyRequests ==
  {Req(endpoint, header, "", 20, "", FALSE) :
     endpoint \in GUARDED, header \in {"", "nokey", " demo123 ", "live_a"}}
    \cup {Req("/usage", "", "demo123", 0, "", FALSE)}
    \cup {Req("/admin/revoke", "", "", 0, key, admin) :
            key \in {"demo123", " live_a "}, admin \in BOOLEAN}

KeyThreads == {"thread-1"}

KeyNext ==
  \/ \E expires_at \in ExpiryTexts : UpsertKey("live_a", 50, expires_at)
  \/ \E success \in BOOLEAN : SendAutomatedEmail("hire_us", success)
  \/ \E t \in KeyThreads, req \in KeyRequests : Receive(t, req)
  \/ \E t \in KeyThreads : BeforeRequestSkip(t)
  \/ \E t \in KeyThreads : BeforeRequestRetry(t)
  \/ \E t \in KeyThreads, due \in BOOLEAN, success \in BOOLEAN : RetryLoop(t, due, success)
  \/ \E t \in KeyThreads : BeforeRequestReturn(t)
  \/ \E t \in KeyThreads : RequireApiKey(t)
  \/ \E t \in KeyThreads : RequireAdmin(t)
  \/ \E t \in KeyThreads : UsageGet(t)
  \/ \E t \in KeyThreads : UsageChargeRead(t)
  \/ \E t \in KeyThreads : IncUsageSelect(t)
  \/ \E t \in KeyThreads : IncUsageWrite(t)
  \/ \E t \in KeyThreads : AdminRevoke(t)
  \/ \E t \in KeyThreads : Respond(t)

KeySpec == Init /\ [][KeyNext]_vars

\* the key is in the table, 'active', and not expired: its expires_at is
\* NULL or an ISO date that is not before today
ValidKey(key) ==
  /\ key \in DOMAIN api_keys
  /\ api_keys[key].status = "active"
  /\ \/ api_keys[key].expires_at = <<>>
     \/ /\ date_fromisoformat(api_keys[key].expires_at[1]) # <<>>
        /\ ~date_before(date_fromisoformat(api_keys[key].expires_at[1])[1], today)

\* what the database holds
Stored == <<sent_emails, upsell_follow_ups, api_keys, usage>>

\* this step is one of thread t
StepOf(t) == calls'[t] # calls[t] \/ retry_runs'[t] # retry_runs[t]

\* C28: a request to an endpoint behind require_api_key whose key is
\* missing, unknown, not 'active', expired or of a malformed expires_at is
\* answered 401 without running the handler, and changes neither the usage
\* count nor any other stored state; so is every request with a key that
\* /admin/revoke has revoked.
C28_RejectedUntouched ==
  [][\A t \in Threads :
       (/\ calls[t] # <<>>
        /\ calls[t][1].endpoint \in GUARDED
        /\ calls[t][1].pc # "done"
        /\ ~ValidKey(key_of(calls[t][1]))
        /\ StepOf(t))
       => /\ Stored' = Stored
          /\ calls'[t][1].pc \in {"before_request", "retrying", "view", "done"}
          /\ calls[t][1].pc = "view" => calls'[t][1].response[1].status = 401]_vars

\* ---------------------------------------------------------------------
\* the upsell follow-ups: _start_upsell_sequence, process_upsell_emails,
\* scheduled_process_upsell_emails and upsell_confirmation

\* follow_up_times of _start_upsell_sequence, in hours after now
follow_up_times == <<1, 12, 48, 96>>

\* the four rows _start_upsell_sequence inserts for a session; status
\* takes the column's default
follow_ups(upsell_token, now) ==
  [sequence \in 1..Len(follow_up_times) |->
     [upsell_token |-> upsell_token, email_sequence |-> sequence,
      scheduled_at |-> now + follow_up_times[sequence], status |-> "scheduled"]]

\* _start_upsell_sequence, once for a session
StartUpsellSequence(upsell_token) ==
  /\ \A i \in 1..Len(upsell_follow_ups) : upsell_follow_ups[i].upsell_token # upsell_token
  /\ upsell_follow_ups' = upsell_follow_ups \o follow_ups(upsell_token, utcnow)
  /\ deliveries' = deliveries \o [sequence \in 1..Len(follow_up_times) |-> 0]
  /\ UNCHANGED <<prompts, mail, upsell_runs, utcnow, keys>>

\* the ids of rows[from..], in id order, that the SELECT of the processing
\* run returns: status 'scheduled' and scheduled_at <= now.  A session's
\* rows are inserted in the order of their scheduled_at, so the ORDER BY
\* keeps the id order.
RECURSIVE pending_emails(_, _, _)
pending_emails(rows, now, from) ==
  IF from > Len(rows) THEN <<>>
  ELSE IF rows[from].status = "scheduled" /\ rows[from].scheduled_at <= now
       THEN <<from>> \o pending_emails(rows, now, from + 1)
       ELSE pending_emails(rows, now, from + 1)

\* the SELECT of process_upsell_emails and of scheduled_process_upsell_emails
UpsellFetch(t) ==
  /\ upsell_runs[t] = <<>>
  /\ upsell_runs' = [upsell_runs EXCEPT ![t] = <<pending_emails(upsell_follow_ups, utcnow, 1)>>]
  /\ UNCHANGED <<prompts, mail, upsell_follow_ups, deliveries, utcnow, keys>>

\* UPDATE upsell_follow_ups SET status=? WHERE id=?
marked(rows, follow_up_id, status) ==
  [rows EXCEPT ![follow_up_id].status = status]

\* one pass of the loop of process_upsell_emails in a request, whether
\* the route, admin_process_emails or admin_run_upsell called it: the email
\* is handed to _send_upsell_email, and the row is marked with the outcome
UpsellLoop(t, success) ==
  /\ t \in Threads
  /\ upsell_runs[t] # <<>>
  /\ upsell_runs[t][1] # <<>>
  /\ upsell_follow_ups' =
       marked(upsell_follow_ups, Head(upsell_runs[t][1]), IF success THEN "sent" ELSE "failed")
  /\ deliveries' =
       [deliveries EXCEPT ![Head(upsell_runs[t][1])] = IF success THEN @ + 1 ELSE @]
  /\ upsell_runs' = [upsell_runs EXCEPT ![t] = <<Tail(upsell_runs[t][1])>>]
  /\ UNCHANGED <<prompts, mail, utcnow, keys>>

\* one pass of the loop of scheduled_process_upsell_emails in the
\* scheduler's thread: _generate_upsell_email_content reads
\* request.host_url outside a request and raises, nothing is sent, and the
\* except branch marks the row 'failed'
ScheduledUpsellLoop ==
  /\ upsell_runs[Scheduler] # <<>>
  /\ upsell_runs[Scheduler][1] # <<>>
  /\ upsell_follow_ups' = marked(upsell_follow_ups, Head(upsell_runs[Scheduler][1]), "failed")
  /\ upsell_runs' = [upsell_runs EXCEPT ![Scheduler] = <<Tail(upsell_runs[Scheduler][1])>>]
  /\ UNCHANGED <<prompts, mail, deliveries, utcnow, keys>>

\* the loop is over: commit and return
UpsellReturn(t) ==
  /\ upsell_runs[t] = << <<>> >>
  /\ upsell_runs' = [upsell_runs EXCEPT ![t] = <<>>]
  /\ UNCHANGED <<prompts, mail, upsell_follow_ups, deliveries, utcnow, keys>>

\* upsell_confirmation: the session's follow-ups still 'scheduled' become
\* 'cancelled'
UpsellConfirmation(upsell_token) ==
  /\ \E i \in 1..Len(upsell_follow_ups) : upsell_follow_ups[i].upsell_token = upsell_token
  /\ upsell_follow_ups' =
       [i \in 1..Len(upsell_follow_ups) |->
          IF /\ upsell_follow_ups[i].upsell_token = upsell_token
             /\ upsell_follow_ups[i].status = "scheduled"
          THEN [upsell_follow_ups[i] EXCEPT !.status = "cancelled"]
          ELSE upsell_follow_ups[i]]
  /\ UNCHANGED <<prompts, mail, deliveries, upsell_runs, utcnow, keys>>

\* the hours at which the model looks at the rows
Hours == {1, 12}

\* time passes
Tick(now) ==
  /\ now > utcnow
  /\ utcnow' = now
  /\ UNCHANGED <<prompts, mail, upsell_follow_ups, deliveries, upsell_runs, keys>>

UpsellNext ==
  \/ StartUpsellSequence("up_a")
  \/ \E now \in Hours : Tick(now)
  \/ \E t \in Threads \cup {Scheduler} : UpsellFetch(t)
  \/ \E t \in Threads, success \in BOOLEAN : UpsellLoop(t, success)
  \/ ScheduledUpsellLoop
  \/ \E t \in Threads \cup {Scheduler} : UpsellReturn(t)
  \/ UpsellConfirmation("up_a")

UpsellSpec == Init /\ [][UpsellNext]_vars

\* C27: each upsell follow-up row is sent at most once: it leaves status
\* 'scheduled' through exactly one of sent, failed or cancelled, also when
\* the scheduler job, /cron/process-upsell-emails and the admin trigger
\* run concurrently, and no follow-up of a session is sent after
\* upsell_confirmation has cancelled that session's scheduled follow-ups.
C27_SentAtMostOnce ==
  /\ [](\A i \in 1..Len(deliveries) : deliveries[i] <= 1)
  /\ [][\A i \in 1..Len(upsell_follow_ups) :
          /\ upsell_follow_ups[i].status # "scheduled"
               => upsell_follow_ups'[i].status = upsell_follow_ups[i].status
          /\ deliveries'[i] > deliveries[i]
               => upsell_follow_ups[i].status # "cancelled"]_vars

====
